---- MODULE Spec2Model ----
(***************************************************************************)
(* Student placement dashboard: the FileUpload control and its CSV parser  *)
(* (client/components/ui/data-table.tsx), and the Index page with its      *)
(* metrics computation (client/pages/Index.tsx and its earlier salary      *)
(* version), with the components the page renders for a Dataset: the       *)
(* charts, the insights and the DataTable.                                 *)
(*                                                                         *)
(* A JavaScript string is a sequence of one-character strings, a Record    *)
(* (a JS object) is the sequence of its own properties in property order,  *)
(* each a [key, value] record, and a Dataset is a sequence of Records.     *)
(***************************************************************************)
EXTENDS Integers, Sequences, FiniteSets, TLC

VARIABLES
    disk,            \* the files the user can pick: file f has text disk[f]
    pending,         \* pending[f]: FileReader reads of file f not yet completed
    fuUploadedFile,  \* FileUpload's uploadedFile state (NoFile: null)
    uploadedFile,    \* Index's uploadedFile state (NoFile: null)
    placementData,   \* Index's placementData state: the Dataset
    metrics,         \* Index's memoised metrics (CGPA / internship version)
    metricsSalary,   \* Index's memoised metrics (salary / companies version)
    chartConfig,     \* Index's chartConfig of the last render
    chartConfigAcademic, \* the same, in the academic version of Index
    insights,        \* AIInsights' insights state
    insightsEarlier, \* the same, in the earlier version of AIInsights
    isGenerating,    \* AIInsights' isGenerating state
    timers,          \* the Datasets the pending setTimeout callbacks of the
                     \* mounted AIInsights hold, in the order they will fire
    pageSize,        \* DataTable's pageSize prop
    searchTerm,      \* DataTable's searchTerm state
    sortConfig,      \* DataTable's sortConfig state (NoSort: null)
    currentPage      \* DataTable's currentPage state

vars == <<disk, pending, fuUploadedFile, uploadedFile, placementData,
          metrics, metricsSalary, chartConfig, chartConfigAcademic,
          insights, insightsEarlier, isGenerating, timers,
          pageSize, searchTerm, sortConfig, currentPage>>

\* the state of the DataTable
tableVars == <<searchTerm, sortConfig, currentPage>>

NoFile == 0

----------------------------------------------------------------------------
(* Strings *)

EmptyStr == << >>

UpperLetters == <<"A","B","C","D","E","F","G","H","I","J","K","L","M",
                  "N","O","P","Q","R","S","T","U","V","W","X","Y","Z">>

LowerLetters == <<"a","b","c","d","e","f","g","h","i","j","k","l","m",
                  "n","o","p","q","r","s","t","u","v","w","x","y","z">>

Digits == <<"0","1","2","3","4","5","6","7","8","9">>

\* the first position of x in seq (0: none)
IndexOf(seq, x) ==
    LET at == {i \in 1..Len(seq) : seq[i] = x} IN
    IF at = {} THEN 0 ELSE CHOOSE i \in at : \A j \in at : i <= j

\* the lower-case letter of each upper-case letter
LowerOf == [c \in {UpperLetters[i] : i \in 1..Len(UpperLetters)} |->
               LowerLetters[IndexOf(UpperLetters, c)]]

\* String.prototype.toLowerCase, on the letters A-Z
LowerChar(c) == IF c \in DOMAIN LowerOf THEN LowerOf[c] ELSE c

ToLowerCase(s) == [i \in 1..Len(s) |-> LowerChar(s[i])]

\* the white space and line terminators String.prototype.trim strips
IsWhiteSpace(c) == c \in {" ", "\t", "\n", "\r", "\f"}

\* String.prototype.trim
Trim(s) ==
    LET keep == {i \in 1..Len(s) : ~IsWhiteSpace(s[i])} IN
    IF keep = {} THEN EmptyStr
    ELSE LET lo == CHOOSE i \in keep : \A j \in keep : i <= j
             hi == CHOOSE i \in keep : \A j \in keep : j <= i
         IN SubSeq(s, lo, hi)

\* String.prototype.split with a one-character separator
RECURSIVE Split(_, _)
Split(s, sep) ==
    LET i == IndexOf(s, sep) IN
    IF i = 0 THEN <<s>>
    ELSE <<SubSeq(s, 1, i - 1)>> \o Split(SubSeq(s, i + 1, Len(s)), sep)

\* s.replace(/"/g, "")
StripQuotes(s) == SelectSeq(s, LAMBDA c : c # "\"")

\* value.trim().replace(/"/g, ""): the cleaning of one comma-separated cell
CleanCell(s) == StripQuotes(Trim(s))

----------------------------------------------------------------------------
(* Records: JS objects used as string-keyed maps.  A Record is the        *)
(* sequence of its own properties in the order Object.keys lists them:    *)
(* array-index keys first, ascending, then the others in insertion order. *)

IsDigit(c) == IndexOf(Digits, c) > 0

DigitValue(c) == IndexOf(Digits, c) - 1

RECURSIVE NatOf(_)
NatOf(s) ==
    IF s = EmptyStr THEN 0
    ELSE 10 * NatOf(SubSeq(s, 1, Len(s) - 1)) + DigitValue(s[Len(s)])

\* a canonical numeric string (of at most 9 digits, so below 2^32 - 1)
IsArrayIndex(k) ==
    /\ Len(k) \in 1..9
    /\ \A i \in 1..Len(k) : IsDigit(k[i])
    /\ (Len(k) = 1 \/ k[1] # "0")

ProtoKey == <<"_","_","p","r","o","t","o","_","_">>

EmptyObj == << >>

ObjKeys(obj) == [i \in 1..Len(obj) |-> obj[i].key]

HasOwn(obj, k) == \E i \in 1..Len(obj) : obj[i].key = k

InsertAt(seq, i, x) == SubSeq(seq, 1, i - 1) \o <<x>> \o SubSeq(seq, i, Len(seq))

\* obj[k] = v, for a string v
ObjSet(obj, k, v) ==
    IF k = ProtoKey
    THEN obj      \* the __proto__ setter ignores a value that is no object
    ELSE IF HasOwn(obj, k)
    THEN [i \in 1..Len(obj) |->
             IF obj[i].key = k THEN [key |-> k, value |-> v] ELSE obj[i]]
    ELSE IF IsArrayIndex(k)
    THEN LET before == {i \in 1..Len(obj) :
                           IsArrayIndex(obj[i].key) /\ NatOf(obj[i].key) < NatOf(k)}
         IN InsertAt(obj, Cardinality(before) + 1, [key |-> k, value |-> v])
    ELSE Append(obj, [key |-> k, value |-> v])

\* student[k] where the result is only tested for truthiness or used when
\* truthy: undefined (no such property) and "" are both falsy, and read as ""
Prop(obj, k) ==
    IF HasOwn(obj, k)
    THEN obj[CHOOSE i \in 1..Len(obj) : obj[i].key = k].value
    ELSE EmptyStr

Truthy(s) == s # EmptyStr

\* a || b on strings
OrElse(a, b) == IF Truthy(a) THEN a ELSE b

----------------------------------------------------------------------------
(* The CSV parser of FileUpload *)

\* headers.reduce((obj, header, index) => { obj[header] = values[index] || ""; ... }, {})
RECURSIVE ZipRow(_, _, _, _)
ZipRow(obj, headers, values, index) ==
    IF index > Len(headers) THEN obj
    ELSE ZipRow(ObjSet(obj, headers[index],
                       IF index <= Len(values) THEN values[index] ELSE EmptyStr),
                headers, values, index + 1)

\* line.split(",").map(value => value.trim().replace(/"/g, ""))
Cells(line) ==
    LET raw == Split(line, ",") IN [i \in 1..Len(raw) |-> CleanCell(raw[i])]

\* Lines without the filter: blank lines are kept
LinesUnfiltered(text) == Split(text, "\n")

\* text.split("\n").filter(line => line.trim())
Lines(text) == SelectSeq(Split(text, "\n"), LAMBDA line : Truthy(Trim(line)))

parseCSV(text) ==
    LET lines == Lines(text) IN
    IF Len(lines) = 0 THEN << >>
    ELSE LET headers == Cells(lines[1]) IN
         [j \in 1..(Len(lines) - 1) |->
             ZipRow(EmptyObj, headers, Cells(lines[j + 1]), 1)]

----------------------------------------------------------------------------
(* Numbers.  A JS number is a binary floating-point value: sign s,        *)
(* significand m of MantissaBits bits and exponent e stand for s*m*2^e;   *)
(* every operation rounds its exact result to the nearest such value,     *)
(* ties to the even significand.  (binary64 has 53 bits; the model keeps  *)
(* the arithmetic and narrows the significand to that of binary16.)       *)
(* s = 0 is NaN, and m = 0 with e = 1 is an infinity; -0 is read as 0.    *)

MantissaBits == 11

Pow2(n) == 2^n

Pow10(n) == 10^n

NaN == [s |-> 0, m |-> 0, e |-> 0]

Zero == [s |-> 1, m |-> 0, e |-> 0]

Infinity(sign) == [s |-> sign, m |-> 0, e |-> 1]

IsNaN(x) == x.s = 0

IsZero(x) == x.s # 0 /\ x.m = 0 /\ x.e = 0

IsInfinite(x) == x.s # 0 /\ x.m = 0 /\ x.e = 1

\* the value nearest to sign * (n / d) * 2^e, for n >= 0 and d > 0
RECURSIVE Round(_, _, _, _)
Round(sign, n, d, e) ==
    IF n = 0 THEN Zero
    ELSE IF n >= d * Pow2(MantissaBits) THEN Round(sign, n, 2 * d, e + 1)
    ELSE IF n < d * Pow2(MantissaBits - 1) THEN Round(sign, 2 * n, d, e - 1)
    ELSE LET q == n \div d
             r == n % d
             up == 2 * r > d \/ (2 * r = d /\ q % 2 = 1)
             m == IF up THEN q + 1 ELSE q
         IN IF m = Pow2(MantissaBits)
            THEN [s |-> sign, m |-> Pow2(MantissaBits - 1), e |-> e + 1]
            ELSE [s |-> sign, m |-> m, e |-> e]

\* a count (a non-negative integer) as a number
Num(n) == Round(1, n, 1, 0)

Min(a, b) == IF a <= b THEN a ELSE b

\* x + y
FAdd(x, y) ==
    IF IsNaN(x) \/ IsNaN(y) THEN NaN
    ELSE IF IsInfinite(x) \/ IsInfinite(y)
    THEN IF IsInfinite(x) /\ IsInfinite(y) /\ x.s # y.s THEN NaN
         ELSE IF IsInfinite(x) THEN x ELSE y
    ELSE LET lo == Min(x.e, y.e)
             sum == x.s * x.m * Pow2(x.e - lo) + y.s * y.m * Pow2(y.e - lo)
         IN IF sum >= 0 THEN Round(1, sum, 1, lo) ELSE Round(-1, -sum, 1, lo)

\* x / y
FDiv(x, y) ==
    IF IsNaN(x) \/ IsNaN(y) THEN NaN
    ELSE IF IsInfinite(x) THEN (IF IsInfinite(y) THEN NaN ELSE Infinity(x.s * y.s))
    ELSE IF IsInfinite(y) THEN Zero
    ELSE IF IsZero(y) THEN (IF IsZero(x) THEN NaN ELSE Infinity(x.s * y.s))
    ELSE Round(x.s * y.s, x.m, y.m, x.e - y.e)

\* x * y
FMul(x, y) ==
    IF IsNaN(x) \/ IsNaN(y) THEN NaN
    ELSE IF IsInfinite(x) \/ IsInfinite(y)
    THEN (IF IsZero(x) \/ IsZero(y) THEN NaN ELSE Infinity(x.s * y.s))
    ELSE Round(x.s * y.s, x.m * y.m, 1, x.e + y.e)

\* x > 0
IsPositive(x) == x.s = 1 /\ ~IsZero(x)

\* the longest prefix of s, from position i on, made of digits
RECURSIVE DigitRun(_, _)
DigitRun(s, i) ==
    IF i <= Len(s) /\ IsDigit(s[i]) THEN <<s[i]>> \o DigitRun(s, i + 1) ELSE EmptyStr

\* parseFloat(s): leading white space, an optional sign, then the longest
\* prefix digits[.digits] or .digits; NaN when there is none.  (The exponent
\* part and the literal Infinity are not modelled: no input here has them.)
parseFloat(str) ==
    LET keep == {i \in 1..Len(str) : ~IsWhiteSpace(str[i])}
        s == IF keep = {} THEN EmptyStr
             ELSE SubSeq(str, CHOOSE i \in keep : \A j \in keep : i <= j, Len(str))
        signed == Len(s) > 0 /\ s[1] \in {"+", "-"}
        sign == IF signed /\ s[1] = "-" THEN -1 ELSE 1
        from == IF signed THEN 2 ELSE 1
        int == DigitRun(s, from)
        dot == from + Len(int)
        frac == IF dot <= Len(s) /\ s[dot] = "." THEN DigitRun(s, dot + 1) ELSE EmptyStr
    IN IF int = EmptyStr /\ frac = EmptyStr THEN NaN
       ELSE Round(sign, NatOf(int \o frac), Pow10(Len(frac)), 0)

----------------------------------------------------------------------------
(* String literals of the metrics computations *)

K_Placement == <<"P","l","a","c","e","m","e","n","t">>
K_Placed == <<"P","l","a","c","e","d">>
K_Status == <<"S","t","a","t","u","s">>
K_Placement_Status ==
    <<"P","l","a","c","e","m","e","n","t","_","S","t","a","t","u","s">>
K_Company == <<"C","o","m","p","a","n","y">>
K_Employer == <<"E","m","p","l","o","y","e","r">>
K_Organization == <<"O","r","g","a","n","i","z","a","t","i","o","n">>
K_Company_Name == <<"C","o","m","p","a","n","y","_","N","a","m","e">>
K_CGPA == <<"C","G","P","A">>
K_cgpa == <<"c","g","p","a">>
K_InternshipExperience ==
    <<"I","n","t","e","r","n","s","h","i","p"," ",
      "E","x","p","e","r","i","e","n","c","e">>
K_Internship == <<"I","n","t","e","r","n","s","h","i","p">>
K_internship == <<"i","n","t","e","r","n","s","h","i","p">>
K_Salary == <<"S","a","l","a","r","y">>
K_Package == <<"P","a","c","k","a","g","e">>
K_CTC == <<"C","T","C">>
K_Annual_Package == <<"A","n","n","u","a","l","_","P","a","c","k","a","g","e">>
K_Offer_Amount == <<"O","f","f","e","r","_","A","m","o","u","n","t">>

L_placed == <<"p","l","a","c","e","d">>
L_yes == <<"y","e","s">>
L_no == <<"n","o">>
L_1 == <<"1">>
L_not_placed == <<"n","o","t"," ","p","l","a","c","e","d">>

----------------------------------------------------------------------------
(* The metrics of Index (client/pages/Index.tsx) *)

\* IsPlaced without toLowerCase
IsPlacedCaseSensitive(student) ==
    LET placement == OrElse(OrElse(Prop(student, K_Placement),
                                   Prop(student, K_Placed)),
                            Prop(student, K_Status))
    IN /\ Truthy(placement)
       /\ placement \in {L_placed, L_yes, L_1}

\* the filter predicate of placedStudents
IsPlaced(student) ==
    LET placement == OrElse(OrElse(Prop(student, K_Placement),
                                   Prop(student, K_Placed)),
                            Prop(student, K_Status))
    IN /\ Truthy(placement)
       /\ \/ ToLowerCase(placement) = L_placed
          \/ ToLowerCase(placement) = L_yes
          \/ placement = L_1

\* CgpaLoop counting every non-empty value, parsed or not
RECURSIVE CgpaLoopCountsAll(_, _, _, _)
CgpaLoopCountsAll(data, i, totalCGPA, cgpaCount) ==
    IF i > Len(data) THEN [total |-> totalCGPA, count |-> cgpaCount]
    ELSE LET cgpa == OrElse(Prop(data[i], K_CGPA), Prop(data[i], K_cgpa)) IN
         IF Truthy(cgpa) /\ ~IsNaN(parseFloat(cgpa))
         THEN CgpaLoopCountsAll(data, i + 1, FAdd(totalCGPA, parseFloat(cgpa)),
                                cgpaCount + 1)
         ELSE CgpaLoopCountsAll(data, i + 1, totalCGPA,
                                IF Truthy(cgpa) THEN cgpaCount + 1 ELSE cgpaCount)

\* the forEach accumulating totalCGPA and cgpaCount, from Record i on
RECURSIVE CgpaLoop(_, _, _, _)
CgpaLoop(data, i, totalCGPA, cgpaCount) ==
    IF i > Len(data) THEN [total |-> totalCGPA, count |-> cgpaCount]
    ELSE LET cgpa == OrElse(Prop(data[i], K_CGPA), Prop(data[i], K_cgpa)) IN
         IF Truthy(cgpa) /\ ~IsNaN(parseFloat(cgpa))
         THEN CgpaLoop(data, i + 1, FAdd(totalCGPA, parseFloat(cgpa)), cgpaCount + 1)
         ELSE CgpaLoop(data, i + 1, totalCGPA, cgpaCount)

\* the filter predicate of withInternship
HasInternship(student) ==
    LET internship == OrElse(OrElse(Prop(student, K_InternshipExperience),
                                    Prop(student, K_Internship)),
                             Prop(student, K_internship))
    IN /\ Truthy(internship)
       /\ \/ ToLowerCase(internship) = L_yes
          \/ internship = L_1
          \/ IsPositive(parseFloat(internship))

\* array.filter(p).length
CountIf(data, p(_)) == Cardinality({i \in 1..Len(data) : p(data[i])})

\* Rate multiplying before it divides: (part * 100) / total
RateMultiplyFirst(part, total) ==
    IF total > 0 THEN FDiv(FMul(Num(part), Num(100)), Num(total)) ELSE Zero

\* Rate dividing the total by the part: (total / part) * 100
RateInverted(part, total) ==
    IF total > 0 THEN FMul(FDiv(Num(total), Num(part)), Num(100)) ELSE Zero

\* total > 0 ? (part / total) * 100 : 0
Rate(part, total) ==
    IF total > 0 THEN FMul(FDiv(Num(part), Num(total)), Num(100)) ELSE Zero

\* Metrics without the early return and without the guards of its divisions
MetricsUnguarded(data) ==
    LET totalStudents == Len(data)
        placedStudents == CountIf(data, IsPlaced)
        acc == CgpaLoop(data, 1, Zero, 0)
        withInternship == CountIf(data, HasInternship)
        rate(part) == FMul(FDiv(Num(part), Num(totalStudents)), Num(100))
    IN [totalStudents |-> totalStudents,
        placedStudents |-> placedStudents,
        placementRate |-> rate(placedStudents),
        averageCGPA |-> FDiv(acc.total, Num(acc.count)),
        withInternship |-> withInternship,
        internshipRate |-> rate(withInternship)]

Metrics(data) ==
    IF Len(data) = 0
    THEN [totalStudents |-> 0, placedStudents |-> 0, placementRate |-> Zero,
          averageCGPA |-> Zero, withInternship |-> 0, internshipRate |-> Zero]
    ELSE LET totalStudents == Len(data)
             placedStudents == CountIf(data, IsPlaced)
             acc == CgpaLoop(data, 1, Zero, 0)
             withInternship == CountIf(data, HasInternship)
         IN [totalStudents |-> totalStudents,
             placedStudents |-> placedStudents,
             placementRate |-> Rate(placedStudents, totalStudents),
             averageCGPA |-> IF acc.count > 0
                             THEN FDiv(acc.total, Num(acc.count)) ELSE Zero,
             withInternship |-> withInternship,
             internshipRate |-> Rate(withInternship, totalStudents)]

----------------------------------------------------------------------------
(* The metrics of the salary version of Index *)

\* the filter predicate of placedStudents
IsPlacedSalary(student) ==
    LET status == OrElse(OrElse(OrElse(Prop(student, K_Status),
                                       Prop(student, K_Placement_Status)),
                                Prop(student, K_Placed)),
                         Prop(student, K_Company))
    IN /\ Truthy(status)
       /\ ToLowerCase(status) # L_not_placed
       /\ ToLowerCase(status) # L_no
       /\ Trim(status) # EmptyStr

salaryFields == <<K_Salary, K_Package, K_CTC, K_Annual_Package, K_Offer_Amount>>

\* for (const field of salaryFields): the salary counted for one student
\* (NaN: none), from field f on
RECURSIVE SalaryOf(_, _)
SalaryOf(student, f) ==
    IF f > Len(salaryFields) THEN NaN
    ELSE LET salary == Prop(student, salaryFields[f]) IN
         IF Truthy(salary) /\ ~IsNaN(parseFloat(salary))
         THEN parseFloat(salary)
         ELSE SalaryOf(student, f + 1)

\* the forEach accumulating totalSalary and salaryCount, from Record i on
RECURSIVE SalaryLoop(_, _, _, _)
SalaryLoop(data, i, totalSalary, salaryCount) ==
    IF i > Len(data) THEN [total |-> totalSalary, count |-> salaryCount]
    ELSE LET salary == SalaryOf(data[i], 1) IN
         IF ~IsNaN(salary)
         THEN SalaryLoop(data, i + 1, FAdd(totalSalary, salary), salaryCount + 1)
         ELSE SalaryLoop(data, i + 1, totalSalary, salaryCount)

companyFields == <<K_Company, K_Employer, K_Organization, K_Company_Name>>

\* for (const field of companyFields): what one student adds to the set of
\* companies, from field f on
RECURSIVE CompanyOf(_, _)
CompanyOf(student, f) ==
    IF f > Len(companyFields) THEN {}
    ELSE LET company == Prop(student, companyFields[f]) IN
         IF /\ Truthy(company)
            /\ Trim(company) # EmptyStr
            /\ ToLowerCase(company) # L_not_placed
         THEN {Trim(company)}
         ELSE CompanyOf(student, f + 1)

\* Companies that drops a company only when the Record before has it too
CompaniesAdjacent(data) ==
    UNION {IF i > 1 /\ CompanyOf(data[i], 1) = CompanyOf(data[i - 1], 1)
           THEN {}
           ELSE {<<i, c>> : c \in CompanyOf(data[i], 1)} : i \in 1..Len(data)}

\* the Set companies after the forEach
Companies(data) == UNION {CompanyOf(data[i], 1) : i \in 1..Len(data)}

MetricsSalary(data) ==
    IF Len(data) = 0
    THEN [totalStudents |-> 0, placedStudents |-> 0, placementRate |-> Zero,
          averageSalary |-> Zero, topCompanies |-> 0]
    ELSE LET totalStudents == Len(data)
             placedStudents == CountIf(data, IsPlacedSalary)
             acc == SalaryLoop(data, 1, Zero, 0)
         IN [totalStudents |-> totalStudents,
             placedStudents |-> placedStudents,
             placementRate |-> Rate(placedStudents, totalStudents),
             averageSalary |-> IF acc.count > 0
                               THEN FDiv(acc.total, Num(acc.count)) ELSE Zero,
             topCompanies |-> Cardinality(Companies(data))]

----------------------------------------------------------------------------
(* Chart roles: getChartConfig of Index, in the version of                 *)
(* client/pages/Index.tsx and in the academic version of the page          *)

\* String.prototype.includes
Includes(s, sub) ==
    \E i \in 0..(Len(s) - Len(sub)) : SubSeq(s, i + 1, i + Len(sub)) = sub

\* undefined, where it has to differ from the empty string
Undefined == <<"undefined">>

S_cgpa == <<"c","g","p","a">>
S_gpa == <<"g","p","a">>
S_placement == <<"p","l","a","c","e","m","e","n","t">>
S_placed == <<"p","l","a","c","e","d">>
S_internship == <<"i","n","t","e","r","n","s","h","i","p">>
S_academic == <<"a","c","a","d","e","m","i","c">>
S_performance == <<"p","e","r","f","o","r","m","a","n","c","e">>
S_department == <<"d","e","p","a","r","t","m","e","n","t">>
S_branch == <<"b","r","a","n","c","h">>
S_course == <<"c","o","u","r","s","e">>
S_company == <<"c","o","m","p","a","n","y">>
S_employer == <<"e","m","p","l","o","y","e","r">>
S_organization == <<"o","r","g","a","n","i","z","a","t","i","o","n">>

K_AcademicPerformance == <<"A","c","a","d","e","m","i","c"," ","P","e","r","f","o","r","m","a","n","c","e">>

\* key.toLowerCase().includes(a) || key.toLowerCase().includes(b) || ...
IncludesAny(key, subs) == \E sub \in subs : Includes(ToLowerCase(key), sub)

\* key.toLowerCase().includes(a) && key.toLowerCase().includes(b)
IncludesAll(key, subs) == \A sub \in subs : Includes(ToLowerCase(key), sub)

\* FindAny taking the last such key
FindAnyLast(keys, subs) ==
    LET at == {i \in 1..Len(keys) : IncludesAny(keys[i], subs)} IN
    IF at = {} THEN Undefined ELSE keys[CHOOSE i \in at : \A j \in at : j <= i]

\* keys.find(key => ... || ...): the first key that includes one of subs
FindAny(keys, subs) ==
    LET at == {i \in 1..Len(keys) : IncludesAny(keys[i], subs)} IN
    IF at = {} THEN Undefined ELSE keys[CHOOSE i \in at : \A j \in at : i <= j]

\* keys.find(key => ... && ...): the first key that includes all of subs
FindAll(keys, subs) ==
    LET at == {i \in 1..Len(keys) : IncludesAll(keys[i], subs)} IN
    IF at = {} THEN Undefined ELSE keys[CHOOSE i \in at : \A j \in at : i <= j]

\* keys[i] of a JS array, counted from 0
KeyAt(keys, i) == IF i + 1 <= Len(keys) THEN keys[i + 1] ELSE Undefined

\* found || fallback: a key that was found is not empty, hence truthy
OrFallback(found, fallback) == IF found = Undefined THEN fallback ELSE found

\* getChartConfig() === null
NoChartConfig == [null |-> TRUE]

\* getChartConfig of client/pages/Index.tsx
getChartConfig(data) ==
    IF Len(data) = 0 THEN NoChartConfig
    ELSE LET keys == ObjKeys(data[1]) IN
         [departmentKey |->
              OrFallback(FindAny(keys, {S_department, S_branch, S_course}),
                         KeyAt(keys, 1)),
          companyKey |->
              OrFallback(FindAny(keys, {S_company, S_employer, S_organization}),
                         KeyAt(keys, 0))]

\* getChartConfig of the academic version of Index
getChartConfigAcademic(data) ==
    IF Len(data) = 0 THEN NoChartConfig
    ELSE LET keys == ObjKeys(data[1]) IN
         [cgpaKey |-> OrFallback(FindAny(keys, {S_cgpa, S_gpa}), K_CGPA),
          placementKey |->
              OrFallback(FindAny(keys, {S_placement, S_placed}), K_Placement),
          internshipKey |->
              OrFallback(FindAny(keys, {S_internship}), K_InternshipExperience),
          academicPerfKey |->
              OrFallback(FindAll(keys, {S_academic, S_performance}),
                         K_AcademicPerformance)]

----------------------------------------------------------------------------
(* Insights: the list the timeout callback of generateInsights builds, in  *)
(* client/components/ui/ai-insights.tsx and in the earlier version of the  *)
(* component.  An Insight keeps id, type, confidence and impact; its title *)
(* is fixed by its id, and of its description it keeps the one part that   *)
(* is interpolated, as value.                                              *)

S_communication == <<"c","o","m","m","u","n","i","c","a","t","i","o","n">>
S_project == <<"p","r","o","j","e","c","t">>
S_iq == <<"i","q">>
S_extra == <<"e","x","t","r","a">>
S_curricular == <<"c","u","r","r","i","c","u","l","a","r">>
S_salary == <<"s","a","l","a","r","y">>
S_package == <<"p","a","c","k","a","g","e">>
S_ctc == <<"c","t","c">>
S_gender == <<"g","e","n","d","e","r">>
S_grade == <<"g","r","a","d","e">>

K_Department == <<"D","e","p","a","r","t","m","e","n","t">>
K_Course == <<"C","o","u","r","s","e">>
K_Branch == <<"B","r","a","n","c","h">>
L_0 == <<"0">>

\* a decimal literal n/d as a number
Dec(n, d) == Round(1, n, d, 0)

\* -x
Neg(x) == [x EXCEPT !.s = -x.s]

\* x <= y
Leq(x, y) ==
    /\ ~IsNaN(x)
    /\ ~IsNaN(y)
    /\ LET diff == FAdd(y, Neg(x)) IN IsZero(diff) \/ diff.s = 1

\* Number.prototype.toFixed(digits): "NaN", "Infinity" with its sign, or
\* the integer n nearest to |x| * 10^digits (the larger of two equally
\* near), to be read with the decimal point digits places from its end
toFixed(x, digits) ==
    IF IsNaN(x) THEN [kind |-> "NaN", s |-> 0, n |-> 0]
    ELSE IF IsInfinite(x) THEN [kind |-> "Infinity", s |-> x.s, n |-> 0]
    ELSE IF x.e >= 0
    THEN [kind |-> "fixed", s |-> x.s, n |-> x.m * Pow2(x.e) * Pow10(digits)]
    ELSE [kind |-> "fixed", s |-> x.s,
          n |-> (2 * x.m * Pow10(digits) + Pow2(-x.e)) \div (2 * Pow2(-x.e))]

\* the size of a Set, interpolated as it is
SizeValue(n) == [kind |-> "size", s |-> 1, n |-> n]

\* a description without an interpolated part
NoValue == [kind |-> "none", s |-> 0, n |-> 0]

\* SomeKeyAny asking for a key that is one of subs, not one that includes it
SomeKeyExact(data, subs) ==
    \E i \in 1..Len(data) : \E k \in 1..Len(data[i]) :
        ToLowerCase(data[i][k].key) \in subs

\* data.find(record => Object.keys(record).some(key => ... || ...))
SomeKeyAny(data, subs) ==
    \E i \in 1..Len(data) : \E k \in 1..Len(data[i]) :
        IncludesAny(data[i][k].key, subs)

\* data.find(record => Object.keys(record).some(key => ... && ...))
SomeKeyAll(data, subs) ==
    \E i \in 1..Len(data) : \E k \in 1..Len(data[i]) :
        IncludesAll(data[i][k].key, subs)

\* the filter predicate of placedStudents in generateInsights
InsightPlaced(record) ==
    LET placement == OrElse(Prop(record, K_Placement), Prop(record, K_Placed))
    IN /\ Truthy(placement)
       /\ (ToLowerCase(placement) = L_placed \/ placement = L_1)

\* parseFloat(record.CGPA || record.cgpa || "0")
InsightCgpa(record) ==
    parseFloat(OrElse(OrElse(Prop(record, K_CGPA), Prop(record, K_cgpa)), L_0))

\* placedStudents.reduce((sum, record) => sum + cgpa, 0), from Record i on
RECURSIVE CgpaSum(_, _, _)
CgpaSum(records, i, sum) ==
    IF i > Len(records) THEN sum
    ELSE CgpaSum(records, i + 1, FAdd(sum, InsightCgpa(records[i])))

\* avgCGPA
InsightAvgCGPA(data) ==
    LET placedStudents == SelectSeq(data, InsightPlaced)
    IN FDiv(CgpaSum(placedStudents, 1, Zero), Num(Len(placedStudents)))

\* the filter predicate of withInternship in generateInsights
InsightInternship(record) ==
    LET internship == OrElse(Prop(record, K_InternshipExperience),
                             Prop(record, K_Internship))
    IN /\ Truthy(internship)
       /\ (ToLowerCase(internship) = L_yes \/ IsPositive(parseFloat(internship)))

\* internshipPlacementRate
InternshipPlacementRate(data) ==
    LET withInternship == SelectSeq(data, InsightInternship)
    IN FMul(FDiv(Num(Len(SelectSeq(withInternship, InsightPlaced))),
                 Num(Len(withInternship))),
            Num(100))

\* perfLevels
PerfLevels(data) ==
    {Prop(data[i], K_AcademicPerformance) : i \in 1..Len(data)} \ {EmptyStr}

\* the entries of the catalog, each as it is pushed
\* CgpaInsight taking its confidence from the data
CgpaInsightConfidenceFromData(data) ==
    [id |-> "1", type |-> "trend",
     confidence |-> FDiv(InsightAvgCGPA(data), Num(10)), impact |-> "high",
     value |-> toFixed(InsightAvgCGPA(data), 1)]

CgpaInsight(data) ==
    [id |-> "1", type |-> "trend", confidence |-> Dec(92, 100), impact |-> "high",
     value |-> toFixed(InsightAvgCGPA(data), 1)]

InternshipInsight(data) ==
    [id |-> "2", type |-> "recommendation", confidence |-> Dec(85, 100),
     impact |-> "high", value |-> toFixed(InternshipPlacementRate(data), 0)]

AcademicPerfInsight(data) ==
    [id |-> "3", type |-> "trend", confidence |-> Dec(8, 10), impact |-> "medium",
     value |-> SizeValue(Cardinality(PerfLevels(data)))]

CommSkillsInsight ==
    [id |-> "4", type |-> "recommendation", confidence |-> Dec(78, 100),
     impact |-> "high", value |-> NoValue]

ProjectsInsight ==
    [id |-> "5", type |-> "prediction", confidence |-> Dec(83, 100),
     impact |-> "high", value |-> NoValue]

IqInsight ==
    [id |-> "6", type |-> "anomaly", confidence |-> Dec(75, 100),
     impact |-> "medium", value |-> NoValue]

ExtraCurricularInsight ==
    [id |-> "7", type |-> "recommendation", confidence |-> Dec(7, 10),
     impact |-> "medium", value |-> NoValue]

\* if (field) newInsights.push(entry)
PushIf(field, entry) == IF field THEN <<entry>> ELSE << >>

\* newInsights of client/components/ui/ai-insights.tsx
Insights(data) ==
    PushIf(SomeKeyAny(data, {S_cgpa, S_gpa}), CgpaInsight(data))
    \o PushIf(SomeKeyAny(data, {S_internship}), InternshipInsight(data))
    \o PushIf(SomeKeyAll(data, {S_academic, S_performance}),
              AcademicPerfInsight(data))
    \o PushIf(SomeKeyAny(data, {S_communication}), CommSkillsInsight)
    \o PushIf(SomeKeyAny(data, {S_project}), ProjectsInsight)
    \o PushIf(SomeKeyAny(data, {S_iq}), IqInsight)
    \o PushIf(SomeKeyAny(data, {S_extra, S_curricular}), ExtraCurricularInsight)

\* the entries of the earlier catalog.  record.Department || record.Course
\* || record.Branch is undefined or "" when none of the three has a value,
\* and which of the two is the same in every Record of a parsed Dataset
\* (its Records have the same keys), so the one stands for the other here.
Departments(data) ==
    {OrElse(OrElse(Prop(data[i], K_Department), Prop(data[i], K_Course)),
            Prop(data[i], K_Branch)) : i \in 1..Len(data)}

\* data.map(record => record.Company || record.Employer).filter(Boolean)
InsightCompany(record) == OrElse(Prop(record, K_Company), Prop(record, K_Employer))

\* InsightCompanies without filter(Boolean)
InsightCompaniesUnfiltered(data) ==
    [i \in 1..Len(data) |-> InsightCompany(data[i])]

InsightCompanies(data) ==
    SelectSeq([i \in 1..Len(data) |-> InsightCompany(data[i])], Truthy)

DepartmentInsight(data) ==
    [id |-> "1", type |-> "trend", confidence |-> Dec(85, 100), impact |-> "high",
     value |-> SizeValue(Cardinality(Departments(data)))]

SalaryInsight ==
    [id |-> "2", type |-> "prediction", confidence |-> Dec(78, 100),
     impact |-> "high", value |-> NoValue]

GenderInsight ==
    [id |-> "3", type |-> "recommendation", confidence |-> Dec(72, 100),
     impact |-> "medium", value |-> NoValue]

CompanyInsight(data) ==
    LET companies == InsightCompanies(data) IN
    [id |-> "4", type |-> "trend", confidence |-> Dec(80, 100), impact |-> "medium",
     value |-> SizeValue(Cardinality({companies[i] : i \in 1..Len(companies)}))]

GradeInsight ==
    [id |-> "5", type |-> "anomaly", confidence |-> Dec(88, 100), impact |-> "high",
     value |-> NoValue]

SkillsInsight ==
    [id |-> "6", type |-> "recommendation", confidence |-> Dec(75, 100),
     impact |-> "high", value |-> NoValue]

\* newInsights of the earlier version of the component
InsightsEarlier(data) ==
    PushIf(Cardinality(Departments(data)) > 1, DepartmentInsight(data))
    \o PushIf(SomeKeyAny(data, {S_salary, S_package, S_ctc}), SalaryInsight)
    \o PushIf(SomeKeyAny(data, {S_gender}), GenderInsight)
    \o PushIf(Len(InsightCompanies(data)) > 0, CompanyInsight(data))
    \o PushIf(SomeKeyAny(data, {S_cgpa, S_gpa, S_grade}), GradeInsight)
    \o <<SkillsInsight>>

----------------------------------------------------------------------------
(* The DashboardChart (client/components/ui/dashboard-chart.tsx): the      *)
(* grouped counts of a Dataset on the header nameKey                       *)

L_Unknown == <<"U","n","k","n","o","w","n">>

L_undefined == <<"u","n","d","e","f","i","n","e","d">>

\* the names a new object {} inherits from Object.prototype, each holding a
\* function (__proto__, an accessor, is ProtoKey)
PrototypeNames ==
    {<<"c","o","n","s","t","r","u","c","t","o","r">>,
     <<"t","o","S","t","r","i","n","g">>,
     <<"t","o","L","o","c","a","l","e","S","t","r","i","n","g">>,
     <<"v","a","l","u","e","O","f">>,
     <<"h","a","s","O","w","n","P","r","o","p","e","r","t","y">>,
     <<"i","s","P","r","o","t","o","t","y","p","e","O","f">>,
     <<"p","r","o","p","e","r","t","y","I","s","E","n","u","m","e","r","a","b","l","e">>,
     <<"_","_","d","e","f","i","n","e","G","e","t","t","e","r","_","_">>,
     <<"_","_","d","e","f","i","n","e","S","e","t","t","e","r","_","_">>,
     <<"_","_","l","o","o","k","u","p","G","e","t","t","e","r","_","_">>,
     <<"_","_","l","o","o","k","u","p","S","e","t","t","e","r","_","_">>}

\* the property name a key stands for: undefined reads "undefined"
KeyString(key) == IF key = Undefined THEN L_undefined ELSE key

\* const name = item[nameKey] || 'Unknown'
ChartName(item, nameKey) == OrElse(Prop(item, KeyString(nameKey)), L_Unknown)

\* the value of the own property k of obj
OwnValue(obj, k) == obj[CHOOSE i \in 1..Len(obj) : obj[i].key = k].value

\* one step of the reduce: if (acc[name]) acc[name]++; else acc[name] = 1.
\* acc[name] of a name acc does not own is what Object.prototype holds: a
\* function or the prototype itself, truthy, which ++ turns into NaN
CountName(acc, name) ==
    IF HasOwn(acc, name)
    THEN IF IsPositive(OwnValue(acc, name))
         THEN ObjSet(acc, name, FAdd(OwnValue(acc, name), Num(1)))
         ELSE ObjSet(acc, name, Num(1))
    ELSE IF name \in PrototypeNames \/ name = ProtoKey
    THEN ObjSet(acc, name, NaN)
    ELSE ObjSet(acc, name, Num(1))

\* data.reduce(..., {}) over the first n items
RECURSIVE ReduceCounts(_, _, _)
ReduceCounts(data, n, nameKey) ==
    IF n = 0 THEN EmptyObj
    ELSE CountName(ReduceCounts(data, n - 1, nameKey), ChartName(data[n], nameKey))

\* processedData: the own properties of the accumulator, name and count
processedData(data, nameKey) == ReduceCounts(data, Len(data), nameKey)

----------------------------------------------------------------------------
(* The DataTable (client/components/ui/data-table.tsx), which Index renders *)
(* in the dashboard with pageSize 15                                        *)

\* useState(null) of sortConfig
NoSort == [null |-> TRUE]

\* pageSize={15} of Index
PageSizeOfIndex == 15

\* the printable ASCII characters in the order of their codes, 32 to 95
Ascii ==
    <<" ","!","\"","#","$","%","&","'","(",")","*","+",",","-",".","/",
      "0","1","2","3","4","5","6","7","8","9",":",";","<","=",">","?",
      "@","A","B","C","D","E","F","G","H","I","J","K","L","M","N","O",
      "P","Q","R","S","T","U","V","W","X","Y","Z","[","\\","]","^","_">>

\* the code unit of each character: 32 to 95 for those of Ascii, 97 to 122
\* for the lower-case letters, and 9, 10, 12, 13 for the white space
CodeOf == [c \in {Ascii[i] : i \in 1..Len(Ascii)} |-> 31 + IndexOf(Ascii, c)]
              @@ [c \in {LowerLetters[i] : i \in 1..Len(LowerLetters)} |->
                     96 + IndexOf(LowerLetters, c)]
              @@ ("{" :> 123) @@ ("|" :> 124) @@ ("}" :> 125) @@ ("~" :> 126)
              @@ ("\t" :> 9) @@ ("\n" :> 10) @@ ("\f" :> 12) @@ ("\r" :> 13)

\* a < b on two strings: the order of the code units, a proper prefix first
RECURSIVE StringLess(_, _)
StringLess(a, b) ==
    IF Len(b) = 0 THEN FALSE
    ELSE IF Len(a) = 0 THEN TRUE
    ELSE IF a[1] = b[1] THEN StringLess(Tail(a), Tail(b))
    ELSE CodeOf[a[1]] < CodeOf[b[1]]

\* row[key] of a row of the Dataset: the value of its own property, or a
\* value that is the same for every row without it (undefined, or what the
\* prototype holds under that name)
RowValue(row, key) ==
    IF HasOwn(row, key) THEN Prop(row, key) ELSE Undefined

\* the comparator handed to sort (undefined < x and x < undefined are false)
SortCompare(a, b, config) ==
    LET aValue == RowValue(a, config.key)
        bValue == RowValue(b, config.key)
    IN IF aValue = bValue THEN 0
       ELSE LET comparison ==
                    IF aValue # Undefined /\ bValue # Undefined
                       /\ StringLess(aValue, bValue)
                    THEN -1 ELSE 1
            IN IF config.direction = "asc" THEN comparison ELSE -comparison

\* Array.prototype.sort, which is stable, on the first n rows: each row goes
\* behind the rows before it that the comparator does not put after it
RECURSIVE SortFirst(_, _, _)
SortFirst(rows, n, config) ==
    IF n = 0 THEN << >>
    ELSE LET sorted == SortFirst(rows, n - 1, config)
             ahead == {i \in 1..Len(sorted) :
                          SortCompare(sorted[i], rows[n], config) <= 0}
         IN InsertAt(sorted, Cardinality(ahead) + 1, rows[n])

\* Object.values(row).some(value => value?.toString().toLowerCase()
\*     .includes(searchTerm.toLowerCase()))
RowMatches(row, term) ==
    \E i \in 1..Len(row) :
        Includes(ToLowerCase(row[i].value), ToLowerCase(term))

\* filteredData: the rows that match the search term when there is one,
\* then a sorted copy of them when there is a sort configuration
filteredData(data, term, config) ==
    LET found == IF Truthy(term)
                 THEN SelectSeq(data, LAMBDA row : RowMatches(row, term))
                 ELSE data
    IN IF config # NoSort THEN SortFirst(found, Len(found), config) ELSE found

\* Math.ceil(filteredData.length / pageSize)
totalPages(rows, size) == (Len(rows) + size - 1) \div size

\* slice taking the row at its end index as well
paginatedDataInclusive(rows, page, size) ==
    LET startIndex == (page - 1) * size
    IN SubSeq(rows, startIndex + 1, Min(startIndex + size + 1, Len(rows)))

\* filteredData.slice(startIndex, startIndex + pageSize)
paginatedData(rows, page, size) ==
    LET startIndex == (page - 1) * size
    IN SubSeq(rows, startIndex + 1, Min(startIndex + size, Len(rows)))

----------------------------------------------------------------------------
(* The page: FileUpload inside Index *)

MaxPending == 2

Files == 1..Len(disk)

RECURSIVE SumUpTo(_, _)
SumUpTo(f, n) == IF n = 0 THEN 0 ELSE f[n] + SumUpTo(f, n - 1)

PendingReads == SumUpTo(pending, Len(disk))

\* Index renders the upload section, and FileUpload in it, only while the
\* Dataset is empty
FileUploadMounted == Len(placementData) = 0

\* FileUpload renders the drop zone and the file input only while it holds
\* no uploaded file
DropZoneShown == FileUploadMounted /\ fuUploadedFile = NoFile

\* Index renders AIInsights only in the dashboard, that is for a Dataset
\* that is not empty
AIInsightsMounted == Len(placementData) > 0

MaxTimers == 2

\* handleFileUpload reachable from the dashboard as well
handleFileUploadAnywhere(f) ==
    /\ PendingReads < MaxPending
    /\ pending' = [pending EXCEPT ![f] = @ + 1]
    /\ UNCHANGED <<disk, fuUploadedFile, uploadedFile, placementData,
                   metrics, metricsSalary, chartConfig, chartConfigAcademic,
                   insights, insightsEarlier, isGenerating, timers,
                   pageSize, tableVars>>

\* FileUpload.handleFileUpload(file): reader.readAsText(file)
handleFileUpload(f) ==
    /\ DropZoneShown
    /\ PendingReads < MaxPending
    /\ pending' = [pending EXCEPT ![f] = @ + 1]
    /\ UNCHANGED <<disk, fuUploadedFile, uploadedFile, placementData,
                   metrics, metricsSalary, chartConfig, chartConfigAcademic,
                   insights, insightsEarlier, isGenerating, timers,
                   pageSize, tableVars>>

\* onload appending the parsed Records to the Dataset
onloadMerging(f) ==
    /\ pending[f] > 0
    /\ pending' = [pending EXCEPT ![f] = @ - 1]
    /\ LET data == placementData \o parseCSV(disk[f]) IN
        /\ Len(data) > 0 => Len(timers) < MaxTimers
        /\ placementData' = data
        /\ uploadedFile' = f
        /\ fuUploadedFile' =
               IF FileUploadMounted /\ Len(data) = 0 THEN f ELSE NoFile
        /\ metrics' = Metrics(data)
        /\ metricsSalary' = MetricsSalary(data)
        /\ chartConfig' = getChartConfig(data)
        /\ chartConfigAcademic' = getChartConfigAcademic(data)
        /\ insights' = IF AIInsightsMounted /\ Len(data) > 0 THEN insights ELSE << >>
        /\ insightsEarlier' =
               IF AIInsightsMounted /\ Len(data) > 0 THEN insightsEarlier ELSE << >>
        /\ isGenerating' = (Len(data) > 0)
        /\ timers' = IF Len(data) = 0 THEN << >>
                      ELSE IF AIInsightsMounted THEN Append(timers, data)
                      ELSE <<data>>
        /\ searchTerm' = IF Len(data) = 0 THEN EmptyStr ELSE searchTerm
        /\ sortConfig' = IF Len(data) = 0 THEN NoSort ELSE sortConfig
        /\ currentPage' = IF Len(data) = 0 THEN 1 ELSE currentPage
    /\ UNCHANGED <<disk, pageSize>>

\* onload keeping the metrics and chart roles of a Dataset it replaces
onloadStale(f) ==
    /\ pending[f] > 0
    /\ pending' = [pending EXCEPT ![f] = @ - 1]
    /\ LET data == parseCSV(disk[f]) IN
        /\ Len(data) > 0 => Len(timers) < MaxTimers
        /\ placementData' = data
        /\ uploadedFile' = f
        /\ fuUploadedFile' =
               IF FileUploadMounted /\ Len(data) = 0 THEN f ELSE NoFile
        /\ metrics' = IF AIInsightsMounted THEN metrics ELSE Metrics(data)
        /\ metricsSalary' =
               IF AIInsightsMounted THEN metricsSalary ELSE MetricsSalary(data)
        /\ chartConfig' =
               IF AIInsightsMounted THEN chartConfig ELSE getChartConfig(data)
        /\ chartConfigAcademic' =
               IF AIInsightsMounted THEN chartConfigAcademic
               ELSE getChartConfigAcademic(data)
        /\ insights' = IF AIInsightsMounted /\ Len(data) > 0 THEN insights ELSE << >>
        /\ insightsEarlier' =
               IF AIInsightsMounted /\ Len(data) > 0 THEN insightsEarlier ELSE << >>
        /\ isGenerating' = (Len(data) > 0)
        /\ timers' = IF Len(data) = 0 THEN << >>
                      ELSE IF AIInsightsMounted THEN Append(timers, data)
                      ELSE <<data>>
        /\ searchTerm' = IF Len(data) = 0 THEN EmptyStr ELSE searchTerm
        /\ sortConfig' = IF Len(data) = 0 THEN NoSort ELSE sortConfig
        /\ currentPage' = IF Len(data) = 0 THEN 1 ELSE currentPage
    /\ UNCHANGED <<disk, pageSize>>

\* onload with a generation started for an empty Dataset as well
onloadGenerating(f) ==
    /\ pending[f] > 0
    /\ pending' = [pending EXCEPT ![f] = @ - 1]
    /\ LET data == parseCSV(disk[f]) IN
        /\ Len(data) > 0 => Len(timers) < MaxTimers
        /\ placementData' = data
        /\ uploadedFile' = f
        /\ fuUploadedFile' =
               IF FileUploadMounted /\ Len(data) = 0 THEN f ELSE NoFile
        /\ metrics' = Metrics(data)
        /\ metricsSalary' = MetricsSalary(data)
        /\ chartConfig' = getChartConfig(data)
        /\ chartConfigAcademic' = getChartConfigAcademic(data)
        /\ insights' = IF AIInsightsMounted /\ Len(data) > 0 THEN insights ELSE << >>
        /\ insightsEarlier' =
               IF AIInsightsMounted /\ Len(data) > 0 THEN insightsEarlier ELSE << >>
        /\ isGenerating' = TRUE
        /\ timers' = IF AIInsightsMounted /\ Len(data) > 0
                      THEN Append(timers, data) ELSE <<data>>
        /\ searchTerm' = IF Len(data) = 0 THEN EmptyStr ELSE searchTerm
        /\ sortConfig' = IF Len(data) = 0 THEN NoSort ELSE sortConfig
        /\ currentPage' = IF Len(data) = 0 THEN 1 ELSE currentPage
    /\ UNCHANGED <<disk, pageSize>>

\* reader.onload: parseCSV, FileUpload.setUploadedFile, then Index's
\* handleFileUpload (setUploadedFile, setPlacementData) and the re-render,
\* which recomputes the memoised metrics and the chart roles and mounts
\* FileUpload only for an empty Dataset (a FileUpload mounted anew holds no
\* file) and AIInsights only for any other.  The effect of AIInsights on
\* [data] then calls generateInsights, which sets isGenerating and starts a
\* timer whose callback holds the Dataset of this render; an AIInsights
\* mounted anew starts from its initial state, and the callbacks of one
\* that was unmounted set the state of nothing.  The DataTable is rendered
\* with AIInsights: it keeps its state while the Dataset is replaced by
\* one that is not empty, and starts from its initial state when mounted anew.
onload(f) ==
    /\ pending[f] > 0
    /\ pending' = [pending EXCEPT ![f] = @ - 1]
    /\ LET data == parseCSV(disk[f]) IN
        /\ Len(data) > 0 => Len(timers) < MaxTimers
        /\ placementData' = data
        /\ uploadedFile' = f
        /\ fuUploadedFile' =
               IF FileUploadMounted /\ Len(data) = 0 THEN f ELSE NoFile
        /\ metrics' = Metrics(data)
        /\ metricsSalary' = MetricsSalary(data)
        /\ chartConfig' = getChartConfig(data)
        /\ chartConfigAcademic' = getChartConfigAcademic(data)
        /\ insights' = IF AIInsightsMounted /\ Len(data) > 0 THEN insights ELSE << >>
        /\ insightsEarlier' =
               IF AIInsightsMounted /\ Len(data) > 0 THEN insightsEarlier ELSE << >>
        /\ isGenerating' = (Len(data) > 0)
        /\ timers' = IF Len(data) = 0 THEN << >>
                      ELSE IF AIInsightsMounted THEN Append(timers, data)
                      ELSE <<data>>
        /\ searchTerm' = IF Len(data) = 0 THEN EmptyStr ELSE searchTerm
        /\ sortConfig' = IF Len(data) = 0 THEN NoSort ELSE sortConfig
        /\ currentPage' = IF Len(data) = 0 THEN 1 ELSE currentPage
    /\ UNCHANGED <<disk, pageSize>>

\* FileUpload.removeFile
removeFile ==
    /\ FileUploadMounted
    /\ fuUploadedFile # NoFile
    /\ fuUploadedFile' = NoFile
    /\ UNCHANGED <<disk, pending, uploadedFile, placementData, metrics,
                   metricsSalary, chartConfig, chartConfigAcademic,
                   insights, insightsEarlier, isGenerating, timers,
                   pageSize, tableVars>>

\* the Refresh button of AIInsights (disabled while isGenerating):
\* generateInsights of the current render
refresh ==
    /\ AIInsightsMounted
    /\ ~isGenerating
    /\ Len(timers) < MaxTimers
    /\ isGenerating' = TRUE
    /\ timers' = Append(timers, placementData)
    /\ UNCHANGED <<disk, pending, fuUploadedFile, uploadedFile, placementData,
                   metrics, metricsSalary, chartConfig, chartConfigAcademic,
                   insights, insightsEarlier, pageSize, tableVars>>

\* timeout with the newest pending callback run first
timeoutNewestFirst ==
    /\ Len(timers) > 0
    /\ insights' = Insights(timers[Len(timers)])
    /\ insightsEarlier' = InsightsEarlier(timers[Len(timers)])
    /\ isGenerating' = FALSE
    /\ timers' = SubSeq(timers, 1, Len(timers) - 1)
    /\ UNCHANGED <<disk, pending, fuUploadedFile, uploadedFile, placementData,
                   metrics, metricsSalary, chartConfig, chartConfigAcademic,
                   pageSize, tableVars>>

\* the callback of the oldest pending setTimeout(..., 2000) (equal delays
\* expire in the order they were set): setInsights(newInsights) of the
\* Dataset the callback holds, setIsGenerating(false)
timeout ==
    /\ Len(timers) > 0
    /\ insights' = Insights(Head(timers))
    /\ insightsEarlier' = InsightsEarlier(Head(timers))
    /\ isGenerating' = FALSE
    /\ timers' = Tail(timers)
    /\ UNCHANGED <<disk, pending, fuUploadedFile, uploadedFile, placementData,
                   metrics, metricsSalary, chartConfig, chartConfigAcademic,
                   pageSize, tableVars>>

\* Index renders the DataTable only in the dashboard, that is for a Dataset
\* that is not empty
DataTableMounted == Len(placementData) > 0

\* const columns = Object.keys(data[0])
columns == IF Len(placementData) > 0 THEN ObjKeys(placementData[1]) ELSE << >>

\* the rows the DataTable has filtered and sorted in this render
Rows == filteredData(placementData, searchTerm, sortConfig)

\* the page buttons are rendered only when totalPages > 1
PagerShown == DataTableMounted /\ totalPages(Rows, pageSize) > 1

\* onChange of the search input: setSearchTerm(e.target.value)
setSearchTerm(term) ==
    /\ DataTableMounted
    /\ term # searchTerm
    /\ searchTerm' = term
    /\ UNCHANGED <<disk, pending, fuUploadedFile, uploadedFile, placementData,
                   metrics, metricsSalary, chartConfig, chartConfigAcademic,
                   insights, insightsEarlier, isGenerating, timers,
                   pageSize, sortConfig, currentPage>>

\* handleSort resetting the configuration by a third click on a column
handleSortCycling(columnKey) ==
    /\ DataTableMounted
    /\ sortConfig' =
           IF sortConfig # NoSort /\ sortConfig.key = columnKey
           THEN IF sortConfig.direction = "asc"
                THEN [key |-> columnKey, direction |-> "desc"]
                ELSE NoSort
           ELSE [key |-> columnKey, direction |-> "asc"]
    /\ UNCHANGED <<disk, pending, fuUploadedFile, uploadedFile, placementData,
                   metrics, metricsSalary, chartConfig, chartConfigAcademic,
                   insights, insightsEarlier, isGenerating, timers,
                   pageSize, searchTerm, currentPage>>

\* a click on the header of column columnKey: handleSort(columnKey); the
\* render sorts a copy of the filtered rows
handleSort(columnKey) ==
    /\ DataTableMounted
    /\ sortConfig' =
           IF sortConfig # NoSort /\ sortConfig.key = columnKey
           THEN [key |-> columnKey,
                 direction |-> IF sortConfig.direction = "asc"
                               THEN "desc" ELSE "asc"]
           ELSE [key |-> columnKey, direction |-> "asc"]
    /\ UNCHANGED <<disk, pending, fuUploadedFile, uploadedFile, placementData,
                   metrics, metricsSalary, chartConfig, chartConfigAcademic,
                   insights, insightsEarlier, isGenerating, timers,
                   pageSize, searchTerm, currentPage>>

\* the Previous button (disabled on page 1):
\* setCurrentPage(p => Math.max(1, p - 1))
previousPage ==
    /\ PagerShown
    /\ currentPage # 1
    /\ currentPage' = IF currentPage - 1 >= 1 THEN currentPage - 1 ELSE 1
    /\ UNCHANGED <<disk, pending, fuUploadedFile, uploadedFile, placementData,
                   metrics, metricsSalary, chartConfig, chartConfigAcademic,
                   insights, insightsEarlier, isGenerating, timers,
                   pageSize, searchTerm, sortConfig>>

\* the Next button (disabled on the last page):
\* setCurrentPage(p => Math.min(totalPages, p + 1))
nextPage ==
    /\ PagerShown
    /\ currentPage # totalPages(Rows, pageSize)
    /\ currentPage' = Min(totalPages(Rows, pageSize), currentPage + 1)
    /\ UNCHANGED <<disk, pending, fuUploadedFile, uploadedFile, placementData,
                   metrics, metricsSalary, chartConfig, chartConfigAcademic,
                   insights, insightsEarlier, isGenerating, timers,
                   pageSize, searchTerm, sortConfig>>

Next ==
    \/ \E f \in Files : handleFileUpload(f)
    \/ \E f \in Files : onload(f)
    \/ removeFile
    \/ refresh
    \/ timeout

\* the search terms the user types
SearchTerms == {EmptyStr, <<"x">>, <<"B">>}

\* the handlers of the DataTable (they change the state of the table alone,
\* which nothing else on the page reads)
NextTable ==
    \/ Next
    \/ \E term \in SearchTerms : setSearchTerm(term)
    \/ \E c \in 1..Len(columns) : handleSort(columns[c])
    \/ previousPage
    \/ nextPage

\* the page after construction, given the disks the user may have and the
\* page sizes the DataTable may be given
InitPage(disks, sizes) ==
    /\ disk \in disks
    /\ pageSize \in sizes
    /\ searchTerm = EmptyStr
    /\ sortConfig = NoSort
    /\ currentPage = 1
    /\ pending = [f \in 1..Len(disk) |-> 0]
    /\ fuUploadedFile = NoFile
    /\ uploadedFile = NoFile
    /\ placementData = << >>
    /\ metrics = Metrics(<< >>)
    /\ metricsSalary = MetricsSalary(<< >>)
    /\ chartConfig = getChartConfig(<< >>)
    /\ chartConfigAcademic = getChartConfigAcademic(<< >>)
    /\ insights = << >>
    /\ insightsEarlier = << >>
    /\ isGenerating = FALSE
    /\ timers = << >>

\* the page of Index after construction
InitWith(disks) == InitPage(disks, {PageSizeOfIndex})

----------------------------------------------------------------------------
(* Inputs *)

\* seq joined with the separator string sep
RECURSIVE Join(_, _)
Join(seq, sep) ==
    IF Len(seq) = 0 THEN EmptyStr
    ELSE IF Len(seq) = 1 THEN seq[1]
    ELSE seq[1] \o sep \o Join(Tail(seq), sep)

SeqsUpTo(S, n) == UNION {[1..k -> S] : k \in 0..n}

MaxRows == 3

\* the texts of a sheet: its header line, then up to MaxRows of its data
\* lines, each text once per ending in tails
SheetTexts(sheet, tails) ==
    {Join(<<sheet.header>> \o rows, <<"\n">>) \o tail :
        rows \in SeqsUpTo(sheet.lines, MaxRows), tail \in tails}

MaxLen == 4

Alphabet == {"a", ",", "\n", " ", "\""}

\* every text of at most MaxLen characters of Alphabet
CharTexts == SeqsUpTo(Alphabet, MaxLen)

\* two distinct headers; padded, quoted, short, long, empty and blank data lines, CRLF
ParseSheetPlain ==
    [header |-> <<"a",",","b">>,
     lines |-> {<<"x",",","y">>,
               <<" ","x"," ",",","\"","y","\"">>,
               <<"x">>,
               <<"x",",","y",",","z">>,
               <<",">>,
               <<" ">>,
               <<"x",",","y","\r">>}]

\* padded and quoted headers
ParseSheetQuoted ==
    [header |-> <<" ","a"," ",",","\"","b","\"">>,
     lines |-> {<<"x",",","y">>,
               <<"y",",">>,
               <<"\""," ","x"," ","\"",",","y">>}]

\* a quoted header that keeps its inner padding
ParseSheetSpaced ==
    [header |-> <<"\""," ","a"," ","\"",",","b">>,
     lines |-> {<<"x",",","y">>}]

\* a header that occurs twice
ParseSheetDuplicate ==
    [header |-> <<"a",",","a">>,
     lines |-> {<<"x",",","y">>,
               <<"x">>}]

\* an empty header
ParseSheetEmptyHeader ==
    [header |-> <<"a",",",",","b">>,
     lines |-> {<<"x",",","y",",","z">>}]

\* headers that are array indices
ParseSheetIndexHeaders ==
    [header |-> <<"2",",","a",",","1">>,
     lines |-> {<<"x",",","y",",","z">>}]

\* a header named __proto__
ParseSheetProto ==
    [header |-> <<"_","_","p","r","o","t","o","_","_",",","b">>,
     lines |-> {<<"x",",","y">>}]

\* Scenario A of the specification
SheetScenarioA ==
    [header |-> <<"N","a","m","e",",","S","t","a","t","u","s">>,
     lines |-> {<<"A",",","P","l","a","c","e","d">>,
               <<"B",",","N","o","t"," ","P","l","a","c","e","d">>}]

\* the three placement-status columns
SheetPlacement ==
    [header |-> <<"P","l","a","c","e","m","e","n","t",",","P","l","a","c","e","d",",","S","t","a","t","u","s">>,
     lines |-> {<<"P","l","a","c","e","d",",",",">>,
               <<",","Y","E","S",",">>,
               <<",",",","1">>,
               <<"n","o",",","y","e","s",",","p","l","a","c","e","d">>,
               <<",",",">>}]

\* Scenario B of the specification
SheetScenarioB ==
    [header |-> <<"N","a","m","e",",","C","G","P","A">>,
     lines |-> {<<"A",",","8",".","5">>,
               <<"B",",","n","o","t","_","a","_","n","u","m","b","e","r">>}]

\* the two CGPA columns
SheetCGPA ==
    [header |-> <<"C","G","P","A",",","c","g","p","a">>,
     lines |-> {<<"x",",","7">>,
               <<",","0",".","5">>,
               <<"0",".","1",",">>,
               <<"0",".","2",",">>}]

\* the internship columns
SheetInternship ==
    [header |-> <<"I","n","t","e","r","n","s","h","i","p"," ","E","x","p","e","r","i","e","n","c","e",",","I","n","t","e","r","n","s","h","i","p">>,
     lines |-> {<<"Y","e","s",",">>,
               <<"N","o",",","1">>,
               <<"2",",">>,
               <<",","-","1">>}]

\* salary columns and a status
SheetSalary ==
    [header |-> <<"S","a","l","a","r","y",",","P","a","c","k","a","g","e",",","S","t","a","t","u","s">>,
     lines |-> {<<"1","6",",",",","P","l","a","c","e","d">>,
               <<"a","b","c",",","0",".","5",",">>,
               <<"0",".","5",",",",","n","o">>,
               <<",","x",",","N","o","t"," ","P","l","a","c","e","d">>}]

\* company columns
SheetCompany ==
    [header |-> <<"C","o","m","p","a","n","y",",","E","m","p","l","o","y","e","r">>,
     lines |-> {<<"G","o","o","g","l","e",",">>,
               <<"N","o","t"," ","P","l","a","c","e","d",",">>,
               <<"N","o","t"," ","P","l","a","c","e","d",",","A","c","m","e">>,
               <<"\""," ","N","o","t"," ","P","l","a","c","e","d"," ","\"",",">>,
               <<"\""," ","G","o","o","g","l","e"," ","\"",",">>}]

\* every column the metrics read, in Records that differ in each
SheetOrder ==
    [header |-> <<"C","G","P","A",",","S","a","l","a","r","y",",","C","o","m","p","a","n","y",",","S","t","a","t","u","s",",","I","n","t","e","r","n","s","h","i","p">>,
     lines |-> {<<"0",".","1",",","1","6",",","G","o","o","g","l","e",",","P","l","a","c","e","d",",","Y","e","s">>,
               <<"0",".","2",",","0",".","5",",","N","o","t"," ","P","l","a","c","e","d",",","n","o",",","N","o">>,
               <<"0",".","5",",","a","b","c",",","A","c","m","e",",",",","2">>}]

\* Scenario A of the specification
TextScenarioA ==
    <<"N","a","m","e",",","S","t","a","t","u","s","\n","A",",","P","l","a","c","e","d","\n","B",",","N","o","t"," ","P","l","a","c","e","d","\n">>

\* Scenario B of the specification
TextScenarioB ==
    <<"N","a","m","e",",","C","G","P","A","\n","A",",","8",".","5","\n","B",",","n","o","t","_","a","_","n","u","m","b","e","r","\n">>

\* Scenario C of the specification
TextScenarioC ==
    <<"C","o","m","p","a","n","y","\n","G","o","o","g","l","e","\n","G","o","o","g","l","e","\n","M","i","c","r","o","s","o","f","t","\n","N","o","t"," ","P","l","a","c","e","d">>

\* a sheet of the academic columns
TextAcademic ==
    <<"C","G","P","A",",","P","l","a","c","e","m","e","n","t",",","I","n","t","e","r","n","s","h","i","p","\n","8",".","5",",","P","l","a","c","e","d",",","Y","e","s","\n","7",",","Y","e","s",",","N","o">>

\* a sheet without any column the page looks for
TextNotes ==
    <<"N","o","t","e","s","\n","h","i">>

ParseSheets ==
    {ParseSheetPlain, ParseSheetQuoted, ParseSheetSpaced, ParseSheetDuplicate,
     ParseSheetEmptyHeader, ParseSheetIndexHeaders, ParseSheetProto}

ParseTexts ==
    CharTexts \cup UNION {SheetTexts(sh, {EmptyStr, <<"\n">>}) : sh \in ParseSheets}

MetricsSheets ==
    {SheetScenarioA, SheetPlacement, SheetScenarioB, SheetCGPA, SheetInternship,
     SheetSalary, SheetCompany}

MetricsTexts ==
    {EmptyStr, TextScenarioA, TextScenarioB, TextScenarioC}
        \cup UNION {SheetTexts(sh, {EmptyStr}) : sh \in MetricsSheets}

\* the texts whose Records are reordered
OrderTexts ==
    {TextScenarioA, TextScenarioB, TextScenarioC} \cup SheetTexts(SheetOrder, {EmptyStr})

MaxColumns == 3

\* the text of a sheet of two data lines whose columns are cols, each a
\* header name with its two cells
ColumnsText(cols) ==
    Join(<<Join([i \in 1..Len(cols) |-> cols[i].name], <<",">>),
           Join([i \in 1..Len(cols) |-> cols[i].cells[1]], <<",">>),
           Join([i \in 1..Len(cols) |-> cols[i].cells[2]], <<",">>)>>, <<"\n">>)

\* the sequences of at most MaxColumns different columns of pool
ColumnSeqs(pool) ==
    UNION {{[i \in 1..k |-> pool[s[i]]] :
               s \in {s \in [1..k -> 1..Len(pool)] :
                          \A i, j \in 1..k : s[i] = s[j] => i = j}} :
           k \in 0..MaxColumns}

\* the same, each set of columns once, in the order of pool
ColumnSets(pool) ==
    UNION {{[i \in 1..k |-> pool[s[i]]] :
               s \in {s \in [1..k -> 1..Len(pool)] :
                          \A i, j \in 1..k : i < j => s[i] < s[j]}} :
           k \in 0..MaxColumns}

\* columns the chart roles and the metrics look for, and one they do not
RoleColumns ==
    <<[name |-> <<"C","G","P","A">>,
      cells |-> <<<<"8",".","5">>, <<"x">>>>],
     [name |-> <<"A","c","a","d","e","m","i","c","_","G","P","A">>,
      cells |-> <<<<"9">>, <<"7">>>>],
     [name |-> <<"P","l","a","c","e","m","e","n","t">>,
      cells |-> <<<<"P","l","a","c","e","d">>, <<"Y","e","s">>>>],
     [name |-> <<"I","n","t","e","r","n","s","h","i","p">>,
      cells |-> <<<<"Y","e","s">>, <<"0">>>>],
     [name |-> <<"N","o","t","e","s">>,
      cells |-> <<<<"h","i">>, <<"y","o">>>>],
     [name |-> <<"D","e","p","a","r","t","m","e","n","t">>,
      cells |-> <<<<"C","S">>, <<"I","T">>>>],
     [name |-> <<"C","o","m","p","a","n","y">>,
      cells |-> <<<<"G","o","o","g","l","e">>, <<"A","c","m","e">>>>]>>

\* columns the insight catalog looks for, and some it should not take for them
InsightColumns ==
    <<[name |-> <<"C","G","P","A">>,
      cells |-> <<<<"8",".","5">>, <<"7">>>>],
     [name |-> <<"I","n","t","e","r","n","s","h","i","p"," ","E","x","p","e","r","i","e","n","c","e">>,
      cells |-> <<<<"Y","e","s">>, <<"N","o">>>>],
     [name |-> <<"A","c","a","d","e","m","i","c"," ","P","e","r","f","o","r","m","a","n","c","e">>,
      cells |-> <<<<"G","o","o","d">>, <<"P","o","o","r">>>>],
     [name |-> <<"C","o","m","m","u","n","i","c","a","t","i","o","n"," ","S","k","i","l","l","s">>,
      cells |-> <<<<"G","o","o","d">>, <<"P","o","o","r">>>>],
     [name |-> <<"P","r","o","j","e","c","t","s"," ","C","o","m","p","l","e","t","e","d">>,
      cells |-> <<<<"3">>, <<"1">>>>],
     [name |-> <<"I","Q">>,
      cells |-> <<<<"1","1","5">>, <<"9","5">>>>],
     [name |-> <<"E","x","t","r","a"," ","C","u","r","r","i","c","u","l","a","r"," ","S","c","o","r","e">>,
      cells |-> <<<<"8","5">>, <<"6","0">>>>],
     [name |-> <<"P","l","a","c","e","m","e","n","t">>,
      cells |-> <<<<"P","l","a","c","e","d">>, <<"N","o","t"," ","P","l","a","c","e","d">>>>],
     [name |-> <<"N","o","t","e","s">>,
      cells |-> <<<<"h","i">>, <<"y","o">>>>],
     [name |-> <<"U","n","i","q","u","e">>,
      cells |-> <<<<"a">>, <<"b">>>>],
     [name |-> <<"A","c","a","d","e","m","i","c">>,
      cells |-> <<<<"x">>, <<"y">>>>],
     [name |-> <<"D","e","p","a","r","t","m","e","n","t">>,
      cells |-> <<<<"C","S">>, <<"I","T">>>>],
     [name |-> <<"C","o","m","p","a","n","y">>,
      cells |-> <<<<"G","o","o","g","l","e">>, EmptyStr>>],
     [name |-> <<"S","a","l","a","r","y">>,
      cells |-> <<<<"1","6">>, <<"0">>>>]>>

\* the texts whose headers are resolved to roles
RoleTexts == {ColumnsText(cols) : cols \in ColumnSeqs(RoleColumns)}

\* the texts from which insights are generated
InsightTexts == {ColumnsText(cols) : cols \in ColumnSets(InsightColumns)}

----------------------------------------------------------------------------
(* Specifications *)

\* one file, of any text of ParseTexts
InitParse == InitWith({<<t>> : t \in ParseTexts})

SpecParse == InitParse /\ [][Next]_vars

\* one file, of any text of MetricsTexts
InitMetrics == InitWith({<<t>> : t \in MetricsTexts})

SpecMetrics == InitMetrics /\ [][Next]_vars

\* one file, of any text of OrderTexts
InitOrder == InitWith({<<t>> : t \in OrderTexts})

SpecOrder == InitOrder /\ [][Next]_vars

\* one file, of any text of RoleTexts
InitRoles == InitWith({<<t>> : t \in RoleTexts})

SpecRoles == InitRoles /\ [][Next]_vars

\* one file, of any text of InsightTexts
InitInsights == InitWith({<<t>> : t \in InsightTexts})

SpecInsights == InitInsights /\ [][Next]_vars

\* three files: an empty one and two scenario texts, or three sheets that
\* differ in their metrics, chart roles and insights
Init ==
    InitWith({<<EmptyStr, TextScenarioA, TextScenarioC>>,
              <<TextScenarioB, TextAcademic, TextNotes>>,
              <<TextNotes, TextScenarioC, TextAcademic>>})

Spec == Init /\ [][Next]_vars

\* a grouping column with a repeated value, an empty cell, the name the chart
\* gives to empty cells, and two names every object inherits
SheetChart ==
    [header |-> <<"N","a","m","e",",","D","e","p","a","r","t","m","e","n","t">>,
     lines |-> {<<"A",",","C","S">>,
               <<"C",",">>,
               <<"D",",","c","o","n","s","t","r","u","c","t","o","r">>,
               <<"E",",","U","n","k","n","o","w","n">>,
               <<"F",",","_","_","p","r","o","t","o","_","_">>}]

\* the texts whose Records the chart groups
ChartTexts == SheetTexts(SheetChart, {EmptyStr})

\* one file, of any text of ChartTexts
InitChart == InitWith({<<t>> : t \in ChartTexts})

SpecChart == InitChart /\ [][Next]_vars

MaxPageSize == 2

\* a name and a group column: rows out of order, two of them of one group
TextThreeRows ==
    <<"n",",","d","\n","b",",","x","\n","a",",","x","\n","c",",","y">>

\* the same with a fourth row
TextFourRows ==
    <<"n",",","d","\n","b",",","x","\n","a",",","x","\n","c",",","y","\n","x",",","y">>

\* two equal rows
TextEqualRows == <<"n",",","d","\n","b",",","x","\n","b",",","x">>

\* a header line alone
TextNoRows == <<"n",",","d">>

\* a sheet of one row and of one column only
TextOneRow == <<"n","\n","b">>

\* the texts shown in the DataTable
TableTexts == {TextThreeRows, TextFourRows, TextEqualRows, TextNoRows}

\* two files, a sheet of SheetTable and the sheet of one row, and a
\* DataTable of a page size up to MaxPageSize
InitTable == InitPage({<<t, TextOneRow>> : t \in TableTexts}, 1..MaxPageSize)

SpecTable == InitTable /\ [][NextTable]_vars

\* the steps of timeout, told by what they do to the timers: the oldest
\* pending callback is gone, and the Dataset is as it was
timeoutStep ==
    /\ Len(timers) > 0
    /\ timers' = Tail(timers)
    /\ placementData' = placementData

\* the page with its timers: the event loop runs a pending setTimeout
\* callback once its delay has passed, so timeout does not stay enabled
\* for ever without a step of it
SpecFair == Init /\ [][Next]_vars /\ WF_timers(timeoutStep)

----------------------------------------------------------------------------
(* The CSV text read as the specification describes it *)

\* a read has completed: Index holds the file and its parsed content
Parsed == uploadedFile # NoFile

\* the text of the file Index holds
ParsedText == disk[uploadedFile]

\* the k-th smallest element of a set of integers
Nth(S, k) == CHOOSE x \in S : Cardinality({y \in S : y < x}) = k - 1

\* the pieces of s between consecutive occurrences of the character c
RefPieces(s, c) ==
    LET cuts == {0, Len(s) + 1} \cup {i \in 1..Len(s) : s[i] = c} IN
    [k \in 1..(Cardinality(cuts) - 1) |->
        SubSeq(s, Nth(cuts, k) + 1, Nth(cuts, k + 1) - 1)]

RefBlank(line) == \A i \in 1..Len(line) : IsWhiteSpace(line[i])

\* the non-blank lines of a text
RefLines(text) == SelectSeq(RefPieces(text, "\n"), LAMBDA line : ~RefBlank(line))

RECURSIVE RefUnquote(_)
RefUnquote(s) ==
    IF s = EmptyStr THEN EmptyStr
    ELSE IF Head(s) = "\"" THEN RefUnquote(Tail(s))
    ELSE <<Head(s)>> \o RefUnquote(Tail(s))

\* the cells of a line: comma-separated, trimmed, then without double quotes
RefCells(line) ==
    LET raw == RefPieces(line, ",") IN
    [k \in 1..Len(raw) |-> RefUnquote(Trim(raw[k]))]

RefHeaders(text) == RefCells(RefLines(text)[1])

Range(seq) == {seq[i] : i \in 1..Len(seq)}

\* headers zipped positionally against values, as a mapping: a position
\* without a value gives "", a value without a header is dropped
RefRow(headers, values) ==
    [h \in Range(headers) |->
        LET k == CHOOSE i \in 1..Len(headers) :
                     headers[i] = h /\ \A j \in (i + 1)..Len(headers) : headers[j] # h
        IN IF k <= Len(values) THEN values[k] ELSE EmptyStr]

RefParse(text) ==
    LET lines == RefLines(text) IN
    IF Len(lines) = 0 THEN << >>
    ELSE [j \in 1..(Len(lines) - 1) |->
             RefRow(RefCells(lines[1]), RefCells(lines[j + 1]))]

\* a Record as a mapping from its keys to its values
AsMap(obj) == [k \in Range(ObjKeys(obj)) |-> Prop(obj, k)]

\* a well-formed CSV text: a header line of distinct non-empty headers, and
\* as many cells in every data line
WellFormed(text) ==
    /\ Len(RefLines(text)) > 0
    /\ LET headers == RefHeaders(text) IN
        /\ \A i \in 1..Len(headers) : headers[i] # EmptyStr
        /\ \A i, j \in 1..Len(headers) : headers[i] = headers[j] => i = j
        /\ \A l \in 2..Len(RefLines(text)) :
               Len(RefCells(RefLines(text)[l])) = Len(headers)

\* N Records, each with exactly the keys H, Record i holding data line i
RoundTrips(text, data) ==
    LET lines == RefLines(text)
        headers == RefHeaders(text)
    IN /\ Len(data) = Len(lines) - 1
       /\ \A i \in 1..Len(data) :
            /\ Range(ObjKeys(data[i])) = Range(headers)
            /\ \A k \in 1..Len(headers) :
                   /\ HasOwn(data[i], headers[k])
                   /\ Prop(data[i], headers[k]) = RefCells(lines[i + 1])[k]

----------------------------------------------------------------------------
(* Claims about the CSV parser, under SpecParse *)

\* C1: for every well-formed CSV text (distinct non-empty headers) with
\* header set H and N non-blank data lines, parseCSV returns exactly N
\* Records, each with exactly the keys of H, Record i holding data line i.
C1_RoundTrip == Parsed /\ WellFormed(ParsedText) => RoundTrips(ParsedText, placementData)

\* C1 holds of every well-formed text that has no header named __proto__
C1_RoundTripNoProto ==
    Parsed /\ WellFormed(ParsedText) /\ ProtoKey \notin Range(RefHeaders(ParsedText))
        => RoundTrips(ParsedText, placementData)

\* C2: parseCSV equals the reference parser on every text: non-blank lines,
\* cleaned header cells, every later line zipped positionally against the
\* headers ("" for a missing value, extra values ignored).
C2_EqualsReference ==
    Parsed =>
        /\ Len(placementData) = Len(RefParse(ParsedText))
        /\ \A i \in 1..Len(placementData) :
               AsMap(placementData[i]) = RefParse(ParsedText)[i]

\* C2 holds of every text that has no header named __proto__
C2_EqualsReferenceNoProto ==
    Parsed /\ (Len(RefLines(ParsedText)) > 0 =>
                   ProtoKey \notin Range(RefHeaders(ParsedText)))
        => /\ Len(placementData) = Len(RefParse(ParsedText))
           /\ \A i \in 1..Len(placementData) :
                  AsMap(placementData[i]) = RefParse(ParsedText)[i]

\* C3: parseCSV of an empty text, of a text of blank lines only, and of a
\* text with a header line and no data line is the empty sequence.
C3_EmptyInput == Parsed /\ Len(RefLines(ParsedText)) <= 1 => placementData = << >>

\* a text of blank lines only has been parsed
C3_Witness ==
    /\ Parsed
    /\ ParsedText # EmptyStr
    /\ Len(RefLines(ParsedText)) = 0
    /\ placementData = << >>

----------------------------------------------------------------------------
(* The metrics read as the specification describes them *)

\* the value of the first of the columns cols that is non-empty in student
\* ("" when none is)
FirstNonEmpty(student, cols) ==
    LET filled == {c \in 1..Len(cols) :
                      HasOwn(student, cols[c]) /\ AsMap(student)[cols[c]] # EmptyStr}
    IN IF filled = {} THEN EmptyStr ELSE AsMap(student)[cols[Nth(filled, 1)]]

RefPlacementStatus(student) == FirstNonEmpty(student, <<K_Placement, K_Placed, K_Status>>)

RefIsPlaced(student) ==
    ToLowerCase(RefPlacementStatus(student)) \in {L_placed, L_yes, L_1}

RefCgpaValue(student) == FirstNonEmpty(student, <<K_CGPA, K_cgpa>>)

Parses(value) == value # EmptyStr /\ ~IsNaN(parseFloat(value))

\* the first of the salary columns that holds a number ("" when none does)
RefSalaryValue(student) ==
    LET ok == {c \in 1..Len(salaryFields) :
                  HasOwn(student, salaryFields[c])
                      /\ Parses(AsMap(student)[salaryFields[c]])}
    IN IF ok = {} THEN EmptyStr ELSE AsMap(student)[salaryFields[Nth(ok, 1)]]

\* the numbers parsed from the values of a role, in Record order
RefValues(data, value(_)) ==
    LET parsed == SelectSeq(data, LAMBDA student : Parses(value(student))) IN
    [k \in 1..Len(parsed) |-> parseFloat(value(parsed[k]))]

RECURSIVE RefSum(_)
RefSum(vals) ==
    IF Len(vals) = 0 THEN Zero
    ELSE FAdd(RefSum(SubSeq(vals, 1, Len(vals) - 1)), vals[Len(vals)])

RefAverage(vals) ==
    IF Len(vals) = 0 THEN Zero ELSE FDiv(RefSum(vals), Num(Len(vals)))

IsNotPlacedSentinel(value) == ToLowerCase(value) = L_not_placed

\* the company of a Record: the trimmed value of the first company column
\* that holds a company (a non-empty value other than "not placed")
RefCompany(student) ==
    LET ok == {c \in 1..Len(companyFields) :
                  /\ HasOwn(student, companyFields[c])
                  /\ Trim(AsMap(student)[companyFields[c]]) # EmptyStr
                  /\ ~IsNotPlacedSentinel(Trim(AsMap(student)[companyFields[c]]))}
    IN IF ok = {} THEN EmptyStr ELSE Trim(AsMap(student)[companyFields[Nth(ok, 1)]])

RefCompanies(data) == {RefCompany(data[i]) : i \in 1..Len(data)} \ {EmptyStr}

\* the permutations of 1..n
Perms(n) == {p \in [1..n -> 1..n] : \A i, j \in 1..n : p[i] = p[j] => i = j}

Permute(data, p) == [i \in 1..Len(data) |-> data[p[i]]]

----------------------------------------------------------------------------
(* Claims about the metrics, under SpecMetrics *)

\* C5: placedCount is the number of Records whose placement-status value
\* (first non-empty of Placement, Placed, Status), lower-cased, is one of
\* "placed", "yes", "1"; a Record without such a value is not placed and
\* still counts in totalCount; Scenario A gives placedCount 1 and rate 50.
C5_PlacedCount ==
    /\ metrics.totalStudents = Len(placementData)
    /\ metrics.placedStudents =
           Cardinality({i \in 1..Len(placementData) : RefIsPlaced(placementData[i])})
    /\ Parsed /\ ParsedText = TextScenarioA =>
           /\ Len(placementData) = 2
           /\ metrics.placedStudents = 1
           /\ metrics.placementRate = Num(50)

\* a Dataset with a placed Record and a Record without placement status
C5_Witness ==
    /\ Parsed
    /\ \E i \in 1..Len(placementData) : RefPlacementStatus(placementData[i]) = EmptyStr
    /\ \E i \in 1..Len(placementData) : RefIsPlaced(placementData[i])
    /\ metrics.placedStudents < metrics.totalStudents

\* C6: in both versions placementRate is placedCount / totalCount * 100 when
\* totalCount > 0 and 0 when totalCount is 0, totalCount being the number of
\* Records.
C6_PlacementRate ==
    LET n == Len(placementData)
        rate(m) == IF n > 0
                   THEN FMul(FDiv(Num(m.placedStudents), Num(n)), Num(100))
                   ELSE Zero
    IN /\ metrics.totalStudents = n
       /\ metricsSalary.totalStudents = n
       /\ metrics.placementRate = rate(metrics)
       /\ metricsSalary.placementRate = rate(metricsSalary)

\* one Record of three is placed
C6_Witness ==
    /\ Parsed
    /\ Len(placementData) = 3
    /\ metrics.placedStudents = 1
    /\ metricsSalary.placedStudents \in 1..2

\* C7: for the empty Dataset both versions return totalCount 0, placementRate
\* 0 and every other field 0, none of them the outcome of a division by zero.
C7_EmptyDataset ==
    Len(placementData) = 0 =>
        /\ metrics = [totalStudents |-> 0, placedStudents |-> 0,
                      placementRate |-> Zero, averageCGPA |-> Zero,
                      withInternship |-> 0, internshipRate |-> Zero]
        /\ metricsSalary = [totalStudents |-> 0, placedStudents |-> 0,
                            placementRate |-> Zero, averageSalary |-> Zero,
                            topCompanies |-> 0]

\* a file without data rows has been uploaded
C7_Witness == Parsed /\ Len(placementData) = 0 /\ metrics.totalStudents = 0

\* C8: the average of a numeric role is the sum of the values that parse
\* divided by their count, Records whose value does not parse being skipped,
\* and 0 when none parses; Scenario B gives 8.5.
C8_Average ==
    /\ metrics.averageCGPA = RefAverage(RefValues(placementData, RefCgpaValue))
    /\ metricsSalary.averageSalary = RefAverage(RefValues(placementData, RefSalaryValue))
    /\ Parsed /\ ParsedText = TextScenarioB =>
           metrics.averageCGPA = Round(1, 85, 10, 0)

\* a Dataset with a CGPA that parses and one that does not
C8_Witness ==
    /\ Parsed
    /\ \E i \in 1..Len(placementData) : Parses(RefCgpaValue(placementData[i]))
    /\ \E i \in 1..Len(placementData) :
           /\ RefCgpaValue(placementData[i]) # EmptyStr
           /\ ~Parses(RefCgpaValue(placementData[i]))
    /\ ~IsZero(metrics.averageCGPA)

\* C9: the distinct company count is the number of unique non-empty trimmed
\* company values, read from Company, Employer, Organization, Company_Name in
\* that order, a value equal to "not placed" in any case not being counted.
C9_DistinctCompanies ==
    metricsSalary.topCompanies = Cardinality(RefCompanies(placementData))

\* C9 holds of every Dataset whose company values carry no outer white space
C9_DistinctCompaniesUnpadded ==
    (\A i \in 1..Len(placementData) : \A c \in 1..Len(companyFields) :
        Prop(placementData[i], companyFields[c])
            = Trim(Prop(placementData[i], companyFields[c])))
        => metricsSalary.topCompanies = Cardinality(RefCompanies(placementData))

----------------------------------------------------------------------------
(* Claims about the chart roles, under SpecRoles *)

K_Academic_GPA == <<"A","c","a","d","e","m","i","c","_","G","P","A">>

\* sub occurs in s
RefContains(s, sub) ==
    \E i \in 1..(Len(s) + 1) : \E j \in (i - 1)..Len(s) : SubSeq(s, i, j) = sub

\* the presence predicate of the CGPA role
RefIsCgpaHeader(h) ==
    RefContains(ToLowerCase(h), S_cgpa) \/ RefContains(ToLowerCase(h), S_gpa)

\* C11: for every header set that contains both CGPA and Academic_GPA the
\* CGPA role of getChartConfig resolves to the header CGPA.
C11_BothResolveToCGPA ==
    Parsed /\ Len(placementData) > 0
           /\ {K_CGPA, K_Academic_GPA} \subseteq Range(RefHeaders(ParsedText))
        => chartConfigAcademic.cgpaKey = K_CGPA

\* C11, by header order: the CGPA role resolves to the first header, in
\* header order, whose lower-cased name contains cgpa or gpa; it is CGPA
\* when CGPA is that header, and Academic_GPA when that one comes first.
C11_FirstMatchResolves ==
    Parsed /\ Len(placementData) > 0 =>
        LET headers == RefHeaders(ParsedText) IN
        \A i \in 1..Len(headers) :
            (RefIsCgpaHeader(headers[i])
                /\ \A j \in 1..(i - 1) : ~RefIsCgpaHeader(headers[j]))
            => chartConfigAcademic.cgpaKey = headers[i]

\* CGPA before Academic_GPA, resolved to CGPA
C11_Witness ==
    /\ Parsed
    /\ Len(placementData) > 0
    /\ LET headers == RefHeaders(ParsedText) IN
        \E i, j \in 1..Len(headers) :
            i < j /\ headers[i] = K_CGPA /\ headers[j] = K_Academic_GPA
    /\ chartConfigAcademic.cgpaKey = K_CGPA

\* the first header, in header order, whose lower-cased name contains one
\* of subs (all of subs); Undefined when the role is unresolved
RefResolveAny(headers, subs) ==
    LET at == {i \in 1..Len(headers) :
                  \E sub \in subs : RefContains(ToLowerCase(headers[i]), sub)}
    IN IF at = {} THEN Undefined ELSE headers[Nth(at, 1)]

RefResolveAll(headers, subs) ==
    LET at == {i \in 1..Len(headers) :
                  \A sub \in subs : RefContains(ToLowerCase(headers[i]), sub)}
    IN IF at = {} THEN Undefined ELSE headers[Nth(at, 1)]

\* C12: getChartConfig returns for each role the first header, in header
\* order, that matches the role, and leaves the role unresolved when none
\* does: no other column and no name that is not a header stands in for it.
C12_UnresolvedStaysUnresolved ==
    Parsed /\ Len(placementData) > 0 =>
        LET headers == RefHeaders(ParsedText) IN
        /\ chartConfig.departmentKey
               = RefResolveAny(headers, {S_department, S_branch, S_course})
        /\ chartConfig.companyKey
               = RefResolveAny(headers, {S_company, S_employer, S_organization})
        /\ chartConfigAcademic.cgpaKey = RefResolveAny(headers, {S_cgpa, S_gpa})
        /\ chartConfigAcademic.placementKey
               = RefResolveAny(headers, {S_placement, S_placed})
        /\ chartConfigAcademic.internshipKey
               = RefResolveAny(headers, {S_internship})
        /\ chartConfigAcademic.academicPerfKey
               = RefResolveAll(headers, {S_academic, S_performance})

\* a value of an internship column that counts as an internship
RefIsInternship(value) ==
    \/ ToLowerCase(value) = L_yes
    \/ value = L_1
    \/ IsPositive(parseFloat(value))

\* C13: the metrics are computed over the columns the roles resolve to:
\* when the CGPA role resolves to a header h, averageCGPA is the average of
\* the values of column h that parse; placedStudents and withInternship are
\* counted over the columns of the placement-status and internship roles.
C13_MetricsUseResolvedRoles ==
    Parsed /\ Len(placementData) > 0 =>
        LET headers == RefHeaders(ParsedText)
            cgpa == RefResolveAny(headers, {S_cgpa, S_gpa})
            placement == RefResolveAny(headers, {S_placement, S_placed})
            internship == RefResolveAny(headers, {S_internship})
        IN /\ cgpa # Undefined =>
                  metrics.averageCGPA =
                      RefAverage(RefValues(placementData,
                          LAMBDA student : FirstNonEmpty(student, <<cgpa>>)))
           /\ placement # Undefined =>
                  metrics.placedStudents =
                      Cardinality({i \in 1..Len(placementData) :
                          ToLowerCase(FirstNonEmpty(placementData[i], <<placement>>))
                              \in {L_placed, L_yes, L_1}})
           /\ internship # Undefined =>
                  metrics.withInternship =
                      Cardinality({i \in 1..Len(placementData) :
                          RefIsInternship(FirstNonEmpty(placementData[i],
                                                        <<internship>>))})

----------------------------------------------------------------------------
(* Claims about the insights, under SpecInsights *)

\* a generation has completed in the mounted AIInsights
Generated == AIInsightsMounted /\ ~isGenerating

\* the ids of the gated catalog entries, in catalog order
RefCatalog == <<"1", "2", "3", "4", "5", "6", "7">>

\* the presence predicate of the catalog entry id, on the header h
RefGate(id, h) ==
    LET has(sub) == RefContains(ToLowerCase(h), sub) IN
    CASE id = "1" -> has(S_cgpa) \/ has(S_gpa)
      [] id = "2" -> has(S_internship)
      [] id = "3" -> has(S_academic) /\ has(S_performance)
      [] id = "4" -> has(S_communication)
      [] id = "5" -> has(S_project)
      [] id = "6" -> has(S_iq)
      [] id = "7" -> has(S_extra) \/ has(S_curricular)

\* C14: for a non-empty Dataset the insight list holds a gated catalog entry
\* exactly when some header matches the presence predicate of the entry;
\* the entries are in catalog order and their ids differ pairwise.
C14_GatedEntries ==
    Generated =>
        LET headers == RefHeaders(ParsedText) IN
        /\ \A c \in 1..Len(RefCatalog) :
               (\E i \in 1..Len(insights) : insights[i].id = RefCatalog[c])
                   <=> (\E k \in 1..Len(headers) : RefGate(RefCatalog[c], headers[k]))
        /\ \A i, j \in 1..Len(insights) :
               i < j => \E c, d \in 1..Len(RefCatalog) :
                           /\ c < d
                           /\ insights[i].id = RefCatalog[c]
                           /\ insights[j].id = RefCatalog[d]

\* two entries emitted, one of them for a header that only contains the
\* word looked for, and the other entries omitted
C14_Witness ==
    /\ Generated
    /\ Len(insights) = 2
    /\ insights[1].id = "2"
    /\ insights[2].id = "6"
    /\ Len(RefHeaders(ParsedText)) = 3

\* h is a header the earlier catalog looks for
RefEarlierRole(h) ==
    \/ \E sub \in {S_salary, S_package, S_ctc, S_gender, S_cgpa, S_gpa, S_grade} :
           RefContains(ToLowerCase(h), sub)
    \/ h \in {K_Department, K_Course, K_Branch, K_Company, K_Employer}

\* C15: for a Dataset none of whose columns matches a known role the
\* insight list is empty; the earlier generator returns exactly its one
\* entry without a presence predicate (id 6, Skills Development Priority).
C15_NoRoleNoInsight ==
    Generated =>
        LET headers == RefHeaders(ParsedText) IN
        /\ (\A k \in 1..Len(headers) : \A c \in 1..Len(RefCatalog) :
                ~RefGate(RefCatalog[c], headers[k]))
               => insights = << >>
        /\ (\A k \in 1..Len(headers) : ~RefEarlierRole(headers[k]))
               => /\ Len(insightsEarlier) = 1
                  /\ insightsEarlier[1].id = "6"
                  /\ insightsEarlier[1].type = "recommendation"

\* the single unrelated column Notes
C15_Witness ==
    /\ Generated
    /\ RefHeaders(ParsedText) = <<<<"N","o","t","e","s">>>>
    /\ insights = << >>
    /\ Len(insightsEarlier) = 1

----------------------------------------------------------------------------
(* Claims relating the insights to the metrics, under SpecRoles *)

\* the Records of data, in order, that the metrics count as placed
RefPlacedRecords(data) == SelectSeq(data, IsPlaced)

\* C16: the number interpolated into an insight is the one the metrics
\* computation gives: the CGPA insight takes the same Records for placed as
\* the metrics do and shows the metrics' average CGPA (unparseable values
\* skipped) of those Records; the internship insight shows the metrics'
\* placement rate of the Records the metrics count as having an internship.
C16_InsightValuesAreMetrics ==
    Generated =>
        \A k \in 1..Len(insights) :
            /\ insights[k].id = "1" =>
                   /\ {i \in 1..Len(placementData) : InsightPlaced(placementData[i])}
                          = {i \in 1..Len(placementData) : IsPlaced(placementData[i])}
                   /\ insights[k].value =
                          toFixed(Metrics(RefPlacedRecords(placementData)).averageCGPA, 1)
            /\ insights[k].id = "2" =>
                   insights[k].value =
                       toFixed(Metrics(SelectSeq(placementData, HasInternship))
                                   .placementRate, 0)

----------------------------------------------------------------------------
(* Claims about the fields of an Insight, under SpecInsights *)

\* the insight lists of all the Datasets of InsightTexts
AllInsights == {Insights(parseCSV(t)) : t \in InsightTexts}

AllInsightsEarlier == {InsightsEarlier(parseCSV(t)) : t \in InsightTexts}

\* the fields of the Insight x are of their types
RefWellTyped(x) ==
    /\ x.type \in {"trend", "recommendation", "prediction", "anomaly"}
    /\ x.impact \in {"high", "medium", "low"}
    /\ Leq(Num(0), x.confidence)
    /\ Leq(x.confidence, Num(1))

\* every list of lists gives the entry of the id of x the confidence and
\* the impact x has
RefFixedById(x, lists) ==
    \A list \in lists : \A k \in 1..Len(list) :
        list[k].id = x.id =>
            list[k].confidence = x.confidence /\ list[k].impact = x.impact

\* C17: every Insight in the insight list has its type among trend,
\* recommendation, prediction, anomaly, its impact among high, medium, low
\* and its confidence in [0,1]; confidence and impact depend on the id
\* alone: every Dataset that emits the entry gives it the same ones.
C17_InsightFields ==
    /\ \A k \in 1..Len(insights) :
           RefWellTyped(insights[k]) /\ RefFixedById(insights[k], AllInsights)
    /\ \A k \in 1..Len(insightsEarlier) :
           /\ RefWellTyped(insightsEarlier[k])
           /\ RefFixedById(insightsEarlier[k], AllInsightsEarlier)

\* an entry whose interpolated value another Dataset emits differently
C17_Witness ==
    /\ Generated
    /\ \E k \in 1..Len(insights) : \E list \in AllInsights :
           \E j \in 1..Len(list) :
               /\ list[j].id = insights[k].id
               /\ list[j].value # insights[k].value

----------------------------------------------------------------------------
(* Claims about uploads and the delayed generation, under Spec *)

\* two reads have completed one after the other, of different files with
\* Datasets that are not empty: the timer of each is still pending
TwoCompleted ==
    /\ Len(timers) = 2
    /\ timers[1] # timers[2]
    /\ PendingReads = 0

\* C18: an upload is not cancelled by another, and the last completion
\* wins: a completion is the only step that takes a read off the pending
\* ones and the only one that changes the Dataset, it takes off its own
\* read alone, and it leaves as Dataset the parsed text of its file, whole
\* and nothing else, and its file as the uploaded file.
C18_LastCompletionWins ==
    [][/\ \A f \in Files :
              pending'[f] < pending[f] =>
                  /\ pending'[f] = pending[f] - 1
                  /\ \A g \in Files \ {f} : pending'[g] = pending[g]
                  /\ placementData' = parseCSV(disk[f])
                  /\ uploadedFile' = f
       /\ (placementData' # placementData \/ uploadedFile' # uploadedFile)
              => \E f \in Files : pending'[f] < pending[f]]_vars

\* both reads have completed and the Dataset is that of the later one
C18_Witness ==
    /\ TwoCompleted
    /\ placementData = timers[2]
    /\ placementData = parseCSV(disk[uploadedFile])
    /\ \E f \in Files \ {uploadedFile} : timers[1] = parseCSV(disk[f])

\* C19: in every reachable state the metrics and the chart roles shown are
\* those computed from the current Dataset alone; nothing computed from an
\* earlier Dataset is left after a replacement.
C19_DerivedFromCurrentDataset ==
    /\ metrics = Metrics(placementData)
    /\ metricsSalary = MetricsSalary(placementData)
    /\ chartConfig = getChartConfig(placementData)
    /\ chartConfigAcademic = getChartConfigAcademic(placementData)

\* a Dataset has replaced one with other metrics and other chart roles
C19_Witness ==
    /\ TwoCompleted
    /\ placementData = timers[2]
    /\ metrics # Metrics(timers[1])
    /\ metricsSalary # MetricsSalary(timers[1])
    /\ chartConfig # getChartConfig(timers[1])
    /\ chartConfigAcademic # getChartConfigAcademic(timers[1])

\* C20: the delay before the generation has no bearing on the result: the
\* list a delayed generation installs when it completes is the list of the
\* Dataset that is current at that moment, also when the Dataset was
\* replaced while the delay was pending.
C20_DelayIrrelevant ==
    [][timeout => /\ insights' = Insights(placementData)
                  /\ insightsEarlier' = InsightsEarlier(placementData)]_vars

----------------------------------------------------------------------------
(* Claims about the page and its components, under Spec *)

\* the metrics of the page without data: every one of them 0
NeutralMetrics(m, ms) ==
    /\ m.totalStudents = 0 /\ m.placedStudents = 0 /\ m.withInternship = 0
    /\ IsZero(m.placementRate) /\ IsZero(m.averageCGPA) /\ IsZero(m.internshipRate)
    /\ ms.totalStudents = 0 /\ ms.placedStudents = 0 /\ ms.topCompanies = 0
    /\ IsZero(ms.placementRate) /\ IsZero(ms.averageSalary)

\* C21: when an upload whose text parses to no Record completes, the
\* Dataset is empty, the page shows the upload view with every metric 0 and
\* no chart roles, and no insight generation is started or left pending.
C21_EmptyUploadNeutral ==
    [][\A f \in Files :
           (pending'[f] < pending[f] /\ Len(parseCSV(disk[f])) = 0) =>
               /\ placementData' = << >>
               /\ uploadedFile' = f
               /\ NeutralMetrics(metrics', metricsSalary')
               /\ chartConfig' = NoChartConfig
               /\ chartConfigAcademic' = NoChartConfig
               /\ ~isGenerating'
               /\ timers' = << >>
               /\ insights' = << >>
               /\ insightsEarlier' = << >>]_vars

\* the read of a file without Records has completed, while another read
\* is still pending
C21_Witness ==
    /\ uploadedFile # NoFile
    /\ Len(parseCSV(disk[uploadedFile])) = 0
    /\ placementData = << >>
    /\ PendingReads > 0

\* the name the claim groups a Record under: its value for k, or "Unknown"
\* when that value is empty or missing
RefChartName(item, k) == IF Prop(item, k) = EmptyStr THEN L_Unknown ELSE Prop(item, k)

\* the number of Records grouped under name
RefChartCount(data, k, name) ==
    Cardinality({i \in 1..Len(data) : RefChartName(data[i], k) = name})

\* the sum of the counts of the first n entries
RECURSIVE SumCounts(_, _)
SumCounts(entries, n) ==
    IF n = 0 THEN Zero ELSE FAdd(SumCounts(entries, n - 1), entries[n].value)

\* C22: the grouped counts of the chart are a frequency table of the
\* Dataset on every header k: the names are the values of k (Unknown for an
\* empty one), each with the number of its Records, a positive integer, and
\* the counts sum to the number of Records.
C22_FrequencyTable ==
    Len(placementData) > 0 =>
        \A c \in 1..Len(columns) :
            LET k == columns[c]
                entries == processedData(placementData, k)
            IN /\ {entries[i].key : i \in 1..Len(entries)}
                      = {RefChartName(placementData[i], k) :
                             i \in 1..Len(placementData)}
               /\ \A i \in 1..Len(entries) :
                      /\ IsPositive(entries[i].value)
                      /\ entries[i].value
                             = Num(RefChartCount(placementData, k, entries[i].key))
               /\ SumCounts(entries, Len(entries)) = Num(Len(placementData))

\* C22 on the Datasets in which no value of a column is a name that every
\* object inherits
C22_FrequencyTableOfOwnNames ==
    (\A i \in 1..Len(placementData) : \A c \in 1..Len(placementData[i]) :
        placementData[i][c].value \notin PrototypeNames \cup {ProtoKey})
        => C22_FrequencyTable

----------------------------------------------------------------------------
(* Claims about the DataTable, under SpecTable *)

\* C23: in every reachable state of the DataTable the current page is
\* between 1 and max(1, totalPages), and a filtered result that is not
\* empty never shows an empty page.
C23_PageInRange ==
    DataTableMounted =>
        /\ 1 <= currentPage
        /\ currentPage <= (IF totalPages(Rows, pageSize) >= 1
                           THEN totalPages(Rows, pageSize) ELSE 1)
        /\ Len(Rows) > 0 => Len(paginatedData(Rows, currentPage, pageSize)) > 0

\* the pages 1 to n of rows, one after the other
RECURSIVE ConcatPages(_, _, _)
ConcatPages(rows, n, size) ==
    IF n = 0 THEN << >>
    ELSE ConcatPages(rows, n - 1, size) \o paginatedData(rows, n, size)

\* how often row occurs in rows
Occurrences(rows, row) == Cardinality({i \in 1..Len(rows) : rows[i] = row})

\* the rows of the Dataset the search term selects, in the Dataset's order
RefMatching ==
    IF searchTerm = EmptyStr THEN placementData
    ELSE SelectSeq(placementData, LAMBDA row : RowMatches(row, searchTerm))

\* C24: for the search term and sort configuration of any reachable state,
\* the pages 1..totalPages partition the filtered, sorted rows: no page has
\* more than pageSize rows, every page but the last has pageSize rows, the
\* pages in order are the filtered, sorted rows, which are the matching
\* rows of the Dataset, none lost or repeated; and a change of the search
\* term or of the sort configuration leaves the Dataset as it was.
C24_PagesPartition ==
    /\ [](DataTableMounted =>
            LET n == totalPages(Rows, pageSize) IN
            /\ \A p \in 1..n :
                   /\ Len(paginatedData(Rows, p, pageSize)) <= pageSize
                   /\ p < n => Len(paginatedData(Rows, p, pageSize)) = pageSize
            /\ ConcatPages(Rows, n, pageSize) = Rows
            /\ Len(Rows) = Len(RefMatching)
            /\ \A i \in 1..Len(RefMatching) :
                   Occurrences(Rows, RefMatching[i])
                       = Occurrences(RefMatching, RefMatching[i]))
    /\ [][(/\ DataTableMounted
           /\ Len(placementData') > 0
           /\ (searchTerm' # searchTerm \/ sortConfig' # sortConfig))
              => placementData' = placementData]_vars

\* three of four rows match the search term and are shown sorted, in an
\* order other than the Dataset's, on a full page and a page of one row
C24_Witness ==
    /\ DataTableMounted
    /\ searchTerm # EmptyStr
    /\ sortConfig # NoSort
    /\ pageSize = 2
    /\ Len(placementData) = 4
    /\ Len(Rows) = 3
    /\ Rows # RefMatching
    /\ currentPage = 2

\* C25: the sort configuration starts as none; a click on column c sets
\* (c, asc) when the sort key is not c and flips the direction when it is;
\* a click changes neither the search term nor the current page; and while
\* the table is shown no step returns the configuration to none.
C25_SortStateMachine ==
    /\ sortConfig = NoSort
    /\ [][/\ \A c \in 1..Len(columns) :
                handleSort(columns[c]) =>
                    /\ sortConfig' =
                           IF sortConfig = NoSort \/ sortConfig.key # columns[c]
                           THEN [key |-> columns[c], direction |-> "asc"]
                           ELSE IF sortConfig.direction = "asc"
                           THEN [key |-> columns[c], direction |-> "desc"]
                           ELSE [key |-> columns[c], direction |-> "asc"]
                    /\ searchTerm' = searchTerm
                    /\ currentPage' = currentPage
          /\ (sortConfig # NoSort /\ Len(placementData') > 0)
                 => sortConfig' # NoSort]_vars

\* a column was clicked twice, on a later page of a filtered table
C25_Witness ==
    /\ DataTableMounted
    /\ sortConfig # NoSort
    /\ sortConfig.direction = "desc"
    /\ searchTerm # EmptyStr
    /\ currentPage = 2

----------------------------------------------------------------------------
(* Further claims about the metrics, under SpecMetrics *)

\* 0 <= x <= 100
IsPercentage(x) == Leq(Zero, x) /\ Leq(x, Num(100))

\* C26: for every Dataset, in both versions of the metrics, the number of
\* placed students and the number of students with an internship are
\* between 0 and the number of students, and the placement rate and the
\* internship rate are between 0 and 100.
C26_CountsAndRatesBounded ==
    /\ metrics.totalStudents = Len(placementData)
    /\ metrics.placedStudents \in 0..metrics.totalStudents
    /\ metrics.withInternship \in 0..metrics.totalStudents
    /\ IsPercentage(metrics.placementRate)
    /\ IsPercentage(metrics.internshipRate)
    /\ metricsSalary.totalStudents = Len(placementData)
    /\ metricsSalary.placedStudents \in 0..metricsSalary.totalStudents
    /\ IsPercentage(metricsSalary.placementRate)

\* some students of three are placed and the others are not, so that the
\* rate is a fraction that has to be rounded
C26_Witness ==
    /\ Len(placementData) = 3
    /\ metrics.placedStudents \in 1..2
    /\ metricsSalary.placedStudents \in 1..2
    /\ metrics.placementRate # Zero
    /\ metrics.placementRate # Num(100)

----------------------------------------------------------------------------
(* Further claims about the insights, under SpecRoles *)

\* C27: every number interpolated into an insight description is well
\* defined: when the CGPA insight is emitted, some Record is treated as
\* placed, and when the internship insight is emitted, some Record has an
\* internship, so that the number shown is a finite decimal.
C27_InsightNumbersDefined ==
    Generated =>
        \A k \in 1..Len(insights) :
            /\ insights[k].id = "1" =>
                   /\ Len(SelectSeq(placementData, InsightPlaced)) > 0
                   /\ insights[k].value.kind = "fixed"
            /\ insights[k].id = "2" =>
                   /\ Len(SelectSeq(placementData, InsightInternship)) > 0
                   /\ insights[k].value.kind = "fixed"

----------------------------------------------------------------------------
(* Further claims about the page, under Spec *)

\* C28: in every reachable state isGenerating is true exactly when a timer
\* of an insight generation is pending, and at most one timer is pending.
C28_OneTimerWhileGenerating ==
    /\ isGenerating <=> Len(timers) > 0
    /\ Len(timers) <= 1

\* no generation is pending and the lists shown are those of the Dataset
Settled ==
    /\ Len(timers) = 0
    /\ ~isGenerating
    /\ insights = Insights(placementData)
    /\ insightsEarlier = InsightsEarlier(placementData)

\* a replacement of the Dataset or a click on Refresh: the steps that start
\* a generation or leave the dashboard
ReplacementOrRefresh ==
    \/ Len(timers') > Len(timers)
    \/ placementData' # placementData

\* C29: once the replacements of the Dataset and the Refresh clicks have
\* come to an end with a Dataset that is not empty, a state is reached, and
\* kept, in which no timer is pending, isGenerating is false and the lists
\* shown are the generator's output for the current Dataset; and such a
\* state is left only by a replacement or a Refresh.
C29_EventuallySettled ==
    /\ (<>[][~ReplacementOrRefresh]_vars) => <>[](AIInsightsMounted => Settled)
    /\ [][(AIInsightsMounted /\ Settled)
              => (ReplacementOrRefresh \/ (AIInsightsMounted' /\ Settled'))]_vars

\* the generations of two Datasets in a row have settled on the lists of
\* the later one, which differ from those of the other
C29_Witness ==
    /\ AIInsightsMounted
    /\ Settled
    /\ PendingReads = 0
    /\ Len(insights) > 0
    /\ \E f \in Files \ {uploadedFile} :
           /\ Len(parseCSV(disk[f])) > 0
           /\ Insights(parseCSV(disk[f])) # insights

\* C30: the upload view, with the FileUpload control, is shown exactly when
\* the Dataset is empty, and the dashboard exactly when it is not: the
\* control holds a file only in the upload view, and insights, timers and
\* table state exist only in the dashboard.  A read is started only while
\* the Dataset is empty; a Dataset that is not empty changes only by the
\* completion of a read that was pending, to the Records of its file; and
\* removeFile clears the file of the control and nothing else.
C30_UploadOnlyWhileEmpty ==
    /\ [](/\ FileUploadMounted <=> Len(placementData) = 0
          /\ FileUploadMounted <=> ~AIInsightsMounted
          /\ FileUploadMounted <=> ~DataTableMounted
          /\ fuUploadedFile # NoFile => FileUploadMounted
          /\ (Len(timers) > 0 \/ isGenerating \/ Len(insights) > 0
                  \/ searchTerm # EmptyStr \/ sortConfig # NoSort \/ currentPage # 1)
                 => ~FileUploadMounted)
    /\ [][/\ (\E f \in Files : pending'[f] > pending[f])
                 => Len(placementData) = 0
          /\ (Len(placementData) > 0 /\ placementData' # placementData)
                 => \E f \in Files :
                        /\ pending[f] > 0
                        /\ pending'[f] = pending[f] - 1
                        /\ placementData' = parseCSV(disk[f])
          /\ removeFile =>
                 /\ fuUploadedFile' = NoFile
                 /\ placementData' = placementData
                 /\ uploadedFile' = uploadedFile
                 /\ pending' = pending
                 /\ metrics' = metrics
                 /\ metricsSalary' = metricsSalary]_vars

\* the dashboard is shown while the read of a file with other Records is
\* still pending
C30_Witness ==
    /\ Len(placementData) > 0
    /\ uploadedFile # NoFile
    /\ \E f \in Files :
           /\ pending[f] > 0
           /\ Len(parseCSV(disk[f])) > 0
           /\ parseCSV(disk[f]) # placementData

====
